---- MODULE Spec2Model ----
(***************************************************************************)
(* Model of the order lifecycle and risk-constrained execution engine of   *)
(* keitaj/hyperliquid-bot: the Order Ledger (order_manager.py), the Risk   *)
(* Monitor (risk_manager.py), the gateway (rate_limiter.py), the execution *)
(* pipeline (strategies/base_strategy.py and the strategies' sizing) and   *)
(* the control loop (bot.py).  The venue is the environment: its replies   *)
(* are drawn from bounded sets, its order book state is kept in            *)
(* venue_open / venue_fills.                                               *)
(***************************************************************************)
EXTENDS Integers, Sequences, FiniteSets, TLC

\* ------------------------------------------------------------------ bounds
MaxOrders == 2      \* orders the process submits in one run of the model
MaxFills == 2       \* fill records the venue keeps in its fill history
MaxDays == 2
MaxLot == 3        \* local-date rollovers in one run of the model

Coins == {"BTC", "ETH"}

\* The calls the model makes to create_limit_order
\* (coin, side, size, price, reduce_only, post_only) ...
LimitInputs == { <<"BTC", "buy", 3, 100, FALSE, TRUE>> }

\* ... and to create_market_order (coin, side, size, reduce_only).
MarketInputs == { <<"ETH", "sell", 2, TRUE>> }

\* The account states the venue reports: marginSummary.accountValue,
\* totalMarginUsed and totalNtlPos, in USD.
AccountValues == {-100, 0, 880, 1000}
MarginUsedValues == {0, 990}
NotionalValues == {0, 4000}

\* The prices (USD) and sizes (in size units of 1e-4 coin) that
\* calculate_position_size_limit and should_allow_new_position are called
\* with, and the max_leverage settings a RiskManager is built with.
LimitPrices == {100, 50000}
LimitSizes == {0, 40, 41}
LeverageConfigs == {1, 2, 3}

\* The Risk Monitor's configuration (bot.py), percentages as integers.
max_leverage == 3
max_position_size_pct == 20
max_drawdown_pct == 10
daily_loss_limit_pct == 5
margin_ratio_limit_pct == 80

\* The strategy's configuration (bot.py, simple_ma): USD and percent.
position_size_usd == 100
max_positions == 3
take_profit_percent == 5
stop_loss_percent == 2
\* SimpleMAStrategy.calculate_position_size caps a position at
\* account_value * 0.1.
account_cap_pct == 10
\* The confidence of SimpleMAStrategy's signals, in tenths.
buy_confidence == 7
sell_confidence == 8
\* get_sz_decimals' default.
default_sz_decimals == 3

\* Sizes are counted in units of 10^-4 of the base asset, the precision
\* calculate_position_size rounds to.
size_decimals == 4

\* BaseStrategy.run(coins)
coins == <<"BTC", "ETH">>

\* The threads that share the RateLimiter.
NumThreads == 2

\* The clock: ticks of 1/30 s, so that min_interval = 1 / 1.5 s is whole.
Second == 30
MaxTime == 150
StartTime == 30

\* _global_rate_limiter
min_interval == 20
burst_limit == 3
backoff_factor == 2
max_backoff == 900
\* wait_if_needed: the window of the burst check and its margin (1.0 s, 0.1 s)
burst_window == 30
burst_margin == 3

\* HyperliquidBot.run: the errors and the seconds after which connections
\* are reset, the seconds slept after a tick and inside a reset, the failed
\* resets after which the bot gives up.
reset_errors == 10
reset_interval == 300
loop_sleep == 10
reset_sleep == 5
max_connection_retries == 5
history_cap == 1000
history_keep == 500
join_timeout == 5
exit_delay == 1
MaxLoopTime == 9800
MaxSignalTime == 700
MaxFetches == 1510

\* Order.id is Optional[int]: None until the venue acknowledges the order.
NoneId == 0

OidSet == 1..MaxOrders

\* ------------------------------------------------------------------ state
VARIABLES
    orders,         \* every Order object built so far, by creation index
    active_orders,  \* OrderManager.active_orders: oid -> index into orders
    venue_open,     \* the venue's open-order list: oid -> [coin, left],
                    \* left being the size not yet filled
    venue_fills,    \* the venue's fill history: sequence of [oid, sz]
    next_oid,       \* the next order id the venue assigns
    call,           \* the last operation called: its arguments, the venue's
                    \* reply to it and what it returned
    starting_balance,        \* RiskManager.starting_balance (None at first)
    daily_starting_balance,  \* RiskManager.daily_starting_balance
    last_reset_date,         \* RiskManager.last_reset_date, in days
    today,                   \* datetime.now().date(), in days
    user_state,              \* the last info.user_state request of the Risk
                             \* Monitor: [by, reply]
    risk_checks,             \* what check_risk_limits returned last
    position_limit,          \* the last calculate_position_size_limit or
                             \* should_allow_new_position: its arguments and
                             \* what it returned
    positions,      \* BaseStrategy.positions: coin -> position
    run_idx,        \* BaseStrategy.run: index of the next coin, 0 outside run
    run_status,     \* how the last run ended or stands: "ok" or "raised"
    sizing,         \* the last execute_signal: the replies it sized on and
                    \* the order it built
    handling,       \* BaseStrategy.run: the coin the loop handled last, what
                    \* should_close_position answered, whether
                    \* generate_signals was called and what it returned
    tick,           \* HyperliquidBot._trading_loop: where the tick stands and
                    \* what it has done
    limiter,        \* the shared RateLimiter (_global_rate_limiter)
    time,           \* time.time(), in clock ticks
    request,        \* the last request sent to the venue: who sent it, how
                    \* it ended, whether the limiter paced it and heard of it
    loop,           \* HyperliquidBot.run: where the while loop stands, running,
                    \* consecutive_errors, last_connection_reset,
                    \* connection_retry_count, and the number of resets
                    \* performed
    lock,           \* RateLimiter._lock: the thread that holds it, 0 when free
    waiters,        \* the threads that call wait_if_needed: where each
                    \* stands, its current_time and the clock its sleep ends at
    shutdown,       \* _signal_handler and its helper thread: where each
                    \* stands, the orders the helper has still to cancel, how
                    \* long the handler waited in join and whether the join
                    \* timed out, the cancel_order calls the helper made
    risk_metrics_history
                    \* RiskManager.risk_metrics_history: the snapshots kept,
                    \* each with its balance and the clock of its fetch

ledger_vars == <<orders, active_orders, venue_open, venue_fills, next_oid, call>>
risk_vars == <<starting_balance, daily_starting_balance, last_reset_date, today,
               user_state, risk_checks, position_limit>>
strategy_vars == <<positions, run_idx, run_status, sizing, handling>>
bot_vars == <<tick>>
gateway_vars == <<limiter, time, request>>
loop_vars == <<loop>>
thread_vars == <<lock, waiters>>
signal_vars == <<shutdown>>
history_vars == <<risk_metrics_history>>
vars == <<ledger_vars, risk_vars, strategy_vars, bot_vars, gateway_vars, loop_vars,
          thread_vars, signal_vars, history_vars>>

\* ------------------------------------------------------------------ helpers
Min(S) == CHOOSE x \in S : \A y \in S : x <= y

Range(f) == {f[x] : x \in DOMAIN f}


\* 10 to the power k.
RECURSIVE Pow10(_)
Pow10(k) == IF k = 0 THEN 1 ELSE 10 * Pow10(k - 1)

EmptyMap == [k \in {} |-> 0]

\* dict[key] = value
DictSet(d, key, value) ==
    [k \in DOMAIN d \cup {key} |-> IF k = key THEN value ELSE d[k]]

\* del dict[key]
DictDel(d, key) == [k \in DOMAIN d \ {key} |-> d[k]]

\* ------------------------------------------------------------------ venue replies
\* A reply of exchange.order / exchange.cancel, field by field as the code
\* inspects it: exc (the call raised), has_result (the result is truthy),
\* has_status/status (result['status']), has_response, has_data,
\* has_statuses, statuses (result['response']['data']['statuses']).
Reply(exc, has_result, has_status, status, has_response, has_data, has_statuses, statuses) ==
    [exc |-> exc, has_result |-> has_result, has_status |-> has_status,
     status |-> status, has_response |-> has_response, has_data |-> has_data,
     has_statuses |-> has_statuses, statuses |-> statuses]

NoReply == Reply(FALSE, FALSE, FALSE, "", FALSE, FALSE, FALSE, <<>>)

StatusEntry(has_oid, oid) == [has_oid |-> has_oid, oid |-> oid]

\* The replies to exchange.order that carry no order id.
OrderFailureReplies ==
    { Reply(TRUE, FALSE, FALSE, "", FALSE, FALSE, FALSE, <<>>),
      Reply(FALSE, FALSE, FALSE, "", FALSE, FALSE, FALSE, <<>>),
      Reply(FALSE, TRUE, FALSE, "", FALSE, FALSE, FALSE, <<>>),
      Reply(FALSE, TRUE, TRUE, "err", TRUE, TRUE, TRUE, <<>>),
      Reply(FALSE, TRUE, TRUE, "ok", FALSE, FALSE, FALSE, <<>>),
      Reply(FALSE, TRUE, TRUE, "ok", TRUE, FALSE, FALSE, <<>>),
      Reply(FALSE, TRUE, TRUE, "ok", TRUE, TRUE, FALSE, <<>>),
      Reply(FALSE, TRUE, TRUE, "ok", TRUE, TRUE, TRUE, <<>>),
      Reply(FALSE, TRUE, TRUE, "ok", TRUE, TRUE, TRUE, <<StatusEntry(FALSE, NoneId)>>) }

\* The reply to exchange.order that acknowledges the order under oid.
OrderAckReply(oid) ==
    Reply(FALSE, TRUE, TRUE, "ok", TRUE, TRUE, TRUE, <<StatusEntry(TRUE, oid)>>)

\* The replies to exchange.cancel.
CancelReplies ==
    { Reply(TRUE, FALSE, FALSE, "", FALSE, FALSE, FALSE, <<>>),
      Reply(FALSE, FALSE, FALSE, "", FALSE, FALSE, FALSE, <<>>),
      Reply(FALSE, TRUE, FALSE, "", FALSE, FALSE, FALSE, <<>>),
      Reply(FALSE, TRUE, TRUE, "err", FALSE, FALSE, FALSE, <<>>),
      Reply(FALSE, TRUE, TRUE, "ok", TRUE, TRUE, TRUE, <<>>) }

\* ------------------------------------------------------------------ Order
Order(coin, side, size, price, order_type, reduce_only) ==
    [id |-> NoneId, coin |-> coin, side |-> side, size |-> size, price |-> price,
     order_type |-> order_type, reduce_only |-> reduce_only,
     status |-> "pending", filled_size |-> 0]

\* The record of the last call.
Call(op, arg, reply, ret, open_ok, fills_ok) ==
    [op |-> op, arg |-> arg, coin |-> "", reply |-> reply, ret |-> ret,
     open_ok |-> open_ok, fills_ok |-> fills_ok]

\* An Optional[float]: None, or a value.
None == [is_none |-> TRUE, value |-> 0]
Some(v) == [is_none |-> FALSE, value |-> v]

\* A reply of info.user_state as get_current_metrics reads it: exc (the
\* call raised), truthy (the result is not empty), has_margin (it has a
\* 'marginSummary'), parse_ok (float() accepts its values), and the values.
UserState(exc, truthy, has_margin, parse_ok, account_value, margin_used, ntl_pos) ==
    [exc |-> exc, truthy |-> truthy, has_margin |-> has_margin, parse_ok |-> parse_ok,
     accountValue |-> account_value, totalMarginUsed |-> margin_used,
     totalNtlPos |-> ntl_pos]

NoUserState == UserState(FALSE, FALSE, FALSE, FALSE, 0, 0, 0)

UserStateFailures ==
    { UserState(TRUE, FALSE, FALSE, FALSE, 0, 0, 0),
      UserState(FALSE, FALSE, FALSE, FALSE, 0, 0, 0),
      UserState(FALSE, TRUE, FALSE, FALSE, 0, 0, 0),
      UserState(FALSE, TRUE, TRUE, FALSE, 0, 0, 0) }

UserStateAnswers ==
    { UserState(FALSE, TRUE, TRUE, TRUE, av, mu, ntl) :
        av \in AccountValues, mu \in MarginUsedValues, ntl \in NotionalValues }

UserStateReplies == UserStateFailures \cup UserStateAnswers

\* The result of check_risk_limits: has_checks tells the four check keys
\* are present; reason is the list that "; ".join makes the reason of.
RiskChecks(has_checks, leverage_ok, margin_ratio_ok, drawdown_ok, daily_loss_ok, all_checks_passed, has_reason, reason) ==
    [has_checks |-> has_checks, leverage_ok |-> leverage_ok,
     margin_ratio_ok |-> margin_ratio_ok, drawdown_ok |-> drawdown_ok,
     daily_loss_ok |-> daily_loss_ok, all_checks_passed |-> all_checks_passed,
     has_reason |-> has_reason, reason |-> reason]

NoRiskChecks == RiskChecks(FALSE, FALSE, FALSE, FALSE, FALSE, FALSE, FALSE, <<>>)

\* A call of calculate_position_size_limit or should_allow_new_position:
\* size in size units and price in USD as passed, the max_leverage of the
\* RiskManager called, the number of fetches it made, max_size as the
\* quotient [n, d] of USD by USD per coin, and what the call returned.
PositionLimit(op, size, price, leverage, fetches, max_size, ret) ==
    [op |-> op, size |-> size, price |-> price, max_leverage |-> leverage,
     fetches |-> fetches, max_size |-> max_size, ret |-> ret, raised |-> FALSE]

NoPositionLimit == PositionLimit("init", 0, 0, 0, 0, [n |-> 0, d |-> 1], FALSE)

InitLedger ==
    /\ orders = <<>>
    /\ active_orders = EmptyMap
    /\ venue_open = EmptyMap
    /\ venue_fills = <<>>
    /\ next_oid = 1
    /\ call = Call("init", 0, NoReply, 0, TRUE, TRUE)

\* RiskManager.__init__
InitRisk ==
    /\ starting_balance = None
    /\ daily_starting_balance = None
    /\ today = 0
    /\ last_reset_date = 0
    /\ user_state = [by |-> "init", reply |-> NoUserState]
    /\ risk_checks = NoRiskChecks
    /\ position_limit = NoPositionLimit
    /\ risk_metrics_history = <<>>

\* A reply of info.l2_snapshot as get_market_data reads it: ok (there is a
\* best bid and a best ask), and the two prices in USD.
MarketData(ok, bid, ask) == [ok |-> ok, bid |-> bid, ask |-> ask, mid2 |-> bid + ask]

MarketDataReplies == { MarketData(FALSE, 0, 0), MarketData(TRUE, 99, 101) }

\* A position of assetPositions: szi in size units, unrealizedPnl and
\* marginUsed in USD.
Position(szi, entry_px, unrealized_pnl, margin_used) ==
    [size |-> szi, entry_price |-> entry_px,
     unrealized_pnl |-> unrealized_pnl, margin_used |-> margin_used]

\* What get_all_positions returns: nothing (also when the lookup fails),
\* a BTC long that is flat, one in profit, one with no margin, an ETH short
\* at a loss, and max_positions positions in coins the strategy does not
\* trade.
PositionLists ==
    { EmptyMap,
      [c \in {"SOL", "AVAX", "DOGE"} |-> Position(10000, 100, 0, 100)],
      [c \in {"BTC"} |-> Position(20000, 100, 0, 100)],
      [c \in {"BTC"} |-> Position(20000, 100, 10, 100)],
      [c \in {"BTC"} |-> Position(20000, 100, 0, 0)],
      [c \in {"ETH"} |-> Position(-10000, 100, -5, 100)] }

Sizing(coin, us, mid2, size, price, opening, submitted) ==
    [coin |-> coin, us |-> us, mid2 |-> mid2, size |-> size, price |-> price,
     opening |-> opening, submitted |-> submitted, computed |-> size]

NoSizing == Sizing("", NoUserState, 0, 0, 0, FALSE, FALSE)

\* What the loop of run did for a coin: verdict is the answer of
\* should_close_position, generated tells generate_signals was called,
\* signal is what it returned.
Handling(coin, verdict, generated, signal) ==
    [coin |-> coin, verdict |-> verdict, generated |-> generated, signal |-> signal]

NoHandling ==
    Handling("", "", FALSE, [side |-> "", order_type |-> "", post_only |-> FALSE,
                             reduce_only |-> FALSE, confidence |-> 0])

\* BaseStrategy.__init__
InitStrategy ==
    /\ positions = EmptyMap
    /\ run_idx = 0
    /\ run_status = "ok"
    /\ sizing = NoSizing
    /\ handling = NoHandling

\* The state of a tick of _trading_loop: pc is the statement it stands at
\* ("idle" between ticks), gated tells a tick has evaluated the gate, passed
\* what the gate answered, and the rest what the tick has done so far.
Tick(pc, gated, passed, cancelled_all, reconciled, strategy_run, orders_before) ==
    [pc |-> pc, gated |-> gated, passed |-> passed, cancelled_all |-> cancelled_all,
     reconciled |-> reconciled, strategy_run |-> strategy_run,
     orders_before |-> orders_before]

InitBot == tick = Tick("idle", FALSE, FALSE, FALSE, FALSE, FALSE, 0)

\* A request to the venue: by is the component, kind the SDK method,
\* outcome what the operation did ("ok": it returned its result, "429" or
\* "error": it raised that error); paced tells wait_if_needed preceded it,
\* reported that on_success or on_429_error followed it; invoked counts the
\* invocations of the operation and result is what the caller got: "ok"
\* (the operation's result), or the error raised to it.
Request(by, kind, outcome, paced, reported) ==
    [by |-> by, kind |-> kind, outcome |-> outcome, paced |-> paced,
     reported |-> reported, invoked |-> 1, result |-> outcome]

NoRequest == [Request("", "", "", FALSE, FALSE) EXCEPT !.invoked = 0]

\* RateLimiter.__init__(requests_per_second, burst_limit, backoff_factor,
\* max_backoff), min_interval = 1 / requests_per_second and max_backoff in
\* clock ticks. released is the history of the limiter: the values
\* _last_request_time has taken, the last burst_limit + 1 of them.
RateLimiter(interval, burst, factor, backoff_cap) ==
    [min_interval |-> interval, burst_limit |-> burst,
     backoff_factor |-> factor, max_backoff |-> backoff_cap,
     last_request_time |-> 0, request_times |-> <<>>,
     consecutive_429s |-> 0, current_backoff |-> 0, released |-> <<>>]

\* _global_rate_limiter; the clock is past the limiter's zero as time.time() is.
InitGateway ==
    /\ limiter = RateLimiter(min_interval, burst_limit, backoff_factor, max_backoff)
    /\ time = StartTime
    /\ request = NoRequest

\* A thread's frame of wait_if_needed: pc is "idle" outside the call,
\* "pacing" after lines 33-40, "bursting" after lines 43-52 and "called"
\* once it has returned; current_time is its local variable, wake the clock
\* at which its time.sleep ends.
Waiter(pc, current_time, wake) == [pc |-> pc, current_time |-> current_time, wake |-> wake]

Threads == 1..NumThreads

\* Lock() of line 24, and no thread inside wait_if_needed.
InitThreads ==
    /\ lock = 0
    /\ waiters = [th \in Threads |-> Waiter("idle", 0, 0)]

\* HyperliquidBot.__init__ and the first lines of run.
InitLoop ==
    loop = [pc |-> "head", running |-> TRUE, consecutive_errors |-> 0,
            last_connection_reset |-> StartTime, connection_retry_count |-> 0,
            resets |-> 0]

\* No signal has been received: the handler has not run and there is no
\* helper thread.
InitSignal ==
    shutdown = [handler |-> "none", helper |-> "none", todo |-> {}, waited |-> 0,
                timed_out |-> FALSE, helper_cancels |-> 0]

Init ==
    /\ InitLedger /\ InitRisk /\ InitStrategy /\ InitBot /\ InitGateway /\ InitLoop
    /\ InitThreads /\ InitSignal

\* ------------------------------------------------------------------ Order Ledger
\* _place_order's test of the venue's result: status 'ok' and the first
\* entry of response.data.statuses has an 'oid'.
AckedNoOid(reply) ==
    /\ ~reply.exc
    /\ reply.has_result /\ reply.has_status /\ reply.status = "ok"
    /\ reply.has_response /\ reply.has_data
    /\ reply.has_statuses /\ Len(reply.statuses) > 0

Acked(reply) ==
    /\ ~reply.exc
    /\ reply.has_result /\ reply.has_status /\ reply.status = "ok"
    /\ reply.has_response /\ reply.has_data
    /\ reply.has_statuses /\ Len(reply.statuses) > 0
    /\ reply.statuses[1].has_oid

\* What the venue does with an order request, next to the reply it sends:
\* "rest" (the order rests in the book), "fill" (it is filled at once),
\* "none" (nothing was placed).
VenuePlaces(reply, coin, size, how) ==
    /\ how \in {"rest", "fill"} => next_oid \in OidSet
    /\ how = "fill" => Len(venue_fills) < MaxFills
    /\ next_oid' = IF how = "none" THEN next_oid ELSE next_oid + 1
    /\ venue_open' = IF how = "rest"
                     THEN DictSet(venue_open, next_oid, [coin |-> coin, left |-> size])
                     ELSE venue_open
    /\ venue_fills' = IF how = "fill"
                      THEN Append(venue_fills, [oid |-> next_oid, sz |-> size])
                      ELSE venue_fills

\* OrderManager._place_order(order) with the venue's reply.
place_order(order, reply) ==
    /\ Len(orders) < MaxOrders
    /\ IF Acked(reply)
       THEN LET oid == reply.statuses[1].oid IN
            /\ orders' = Append(orders, [order EXCEPT !.id = oid])
            /\ active_orders' = DictSet(active_orders, oid, Len(orders) + 1)
            /\ call' = Call("submit", 0, reply, Len(orders) + 1, TRUE, TRUE)
       ELSE /\ orders' = Append(orders, [order EXCEPT !.status = "rejected"])
            /\ active_orders' = active_orders
            /\ call' = Call("submit", 0, reply, 0, TRUE, TRUE)

\* exchange.order(...) as the venue answers it: an acknowledgement under a
\* fresh id, or one of the failures (after a raised call the order may have
\* been placed all the same).
SubmitToVenue(order, failures) ==
    \/ \E how \in {"rest", "fill"} :
          /\ VenuePlaces(OrderAckReply(next_oid), order.coin, order.size, how)
          /\ place_order(order, OrderAckReply(next_oid))
    \/ \E reply \in failures, how \in {"none", "rest"} :
          /\ how = "rest" => reply.exc
          /\ VenuePlaces(reply, order.coin, order.size, how)
          /\ place_order(order, reply)

\* failures: the failure replies the venue may give to this call.
create_limit_order(coin, side, size, price, reduce_only, post_only, failures) ==
    SubmitToVenue(Order(coin, side, size, price,
                        IF post_only THEN "Alo" ELSE "Gtc", reduce_only), failures)

create_market_order(coin, side, size, reduce_only, failures) ==
    SubmitToVenue(Order(coin, side, size, 0, "market", reduce_only), failures)

\* cancel_order's test of the venue's result.
CancelOkAlways(reply) == ~reply.exc

CancelOk(reply) ==
    ~reply.exc /\ reply.has_result /\ reply.has_status /\ reply.status = "ok"

\* Lines 129-131: the order, if tracked, is marked Cancelled and dropped.
\* The result is the pair of the orders and the active set afterwards.
MarkCancelledKeep(ords, act, order_id) ==
    IF order_id \in DOMAIN act
    THEN [orders |-> [ords EXCEPT ![act[order_id]].status = "cancelled"],
          active |-> act]
    ELSE [orders |-> ords, active |-> act]

MarkCancelled(ords, act, order_id) ==
    IF order_id \in DOMAIN act
    THEN [orders |-> [ords EXCEPT ![act[order_id]].status = "cancelled"],
          active |-> DictDel(act, order_id)]
    ELSE [orders |-> ords, active |-> act]

\* OrderManager.cancel_order(order_id, coin): the pair after the call.
CancelOrderLocal(ords, act, order_id, reply) ==
    IF CancelOk(reply) THEN MarkCancelled(ords, act, order_id)
    ELSE [orders |-> ords, active |-> act]

\* A cancel the venue confirms takes the order out of its book.
VenueAfterCancel(open, order_id, reply) ==
    IF CancelOk(reply) THEN DictDel(open, order_id) ELSE open

cancel_order(order_id, coin) ==
    \E reply \in CancelReplies :
        LET after == CancelOrderLocal(orders, active_orders, order_id, reply) IN
        /\ orders' = after.orders
        /\ active_orders' = after.active
        /\ venue_open' = VenueAfterCancel(venue_open, order_id, reply)
        /\ call' = Call("cancel", order_id, reply,
                        IF CancelOk(reply) THEN 1 ELSE 0, TRUE, TRUE)
        /\ UNCHANGED <<venue_fills, next_oid>>

\* cancel_all_orders' loop over the venue's list: cancel_order for each
\* listed order in S, the venue answering replies[oid] to each; count is
\* cancelled_count.
RECURSIVE CancelEach(_, _, _, _, _)
CancelEach(ords, act, S, replies, count) ==
    IF S = {} THEN [orders |-> ords, active |-> act, count |-> count]
    ELSE LET oid == Min(S)
             after == CancelOrderLocal(ords, act, oid, replies[oid])
         IN CancelEach(after.orders, after.active, S \ {oid}, replies,
                       IF CancelOk(replies[oid]) THEN count + 1 ELSE count)

\* The orders of the venue's list that cancel_all_orders(coin) cancels;
\* coin = "" stands for coin=None.
MatchingAll(open, coin) == DOMAIN open

Matching(open, coin) == {oid \in DOMAIN open : coin = "" \/ open[oid].coin = coin}

\* OrderManager.cancel_all_orders(coin).  open_ok: info.open_orders answered.
cancel_all_orders(coin) ==
    \E open_ok \in BOOLEAN :
        IF ~open_ok
        THEN /\ call' = [Call("cancel_all", 0, NoReply, 0, FALSE, TRUE)
                            EXCEPT !.coin = coin]
             /\ UNCHANGED <<orders, active_orders, venue_open, venue_fills, next_oid>>
        ELSE \E replies \in [Matching(venue_open, coin) -> CancelReplies] :
                LET S == Matching(venue_open, coin)
                    confirmed == {oid \in S : CancelOk(replies[oid])}
                    after == CancelEach(orders, active_orders, S, replies, 0)
                IN /\ orders' = after.orders
                   /\ active_orders' = after.active
                   /\ venue_open' = [oid \in DOMAIN venue_open \ confirmed |-> venue_open[oid]]
                   /\ call' = [Call("cancel_all", 0, NoReply, after.count, TRUE, TRUE)
                                  EXCEPT !.coin = coin]
                   /\ UNCHANGED <<venue_fills, next_oid>>

\* The index of the first fill record of the order, 0 when there is none
\* (the for ... break of lines 181-185).
LastFill(fills, order_id) ==
    LET I == {i \in 1..Len(fills) : fills[i].oid = order_id}
    IN IF I = {} THEN 0 ELSE CHOOSE i \in I : \A j \in I : j <= i

FirstFill(fills, order_id) ==
    LET I == {i \in 1..Len(fills) : fills[i].oid = order_id}
    IN IF I = {} THEN 0 ELSE Min(I)

\* Lines 179-189 for one tracked order that the venue no longer lists.
ReconcileOneKeep(ords, act, fills, order_id) ==
    LET i == FirstFill(fills, order_id)
        h == act[order_id]
    IN [orders |-> IF i > 0
                   THEN [ords EXCEPT ![h].filled_size = fills[i].sz,
                                     ![h].status = "filled"]
                   ELSE [ords EXCEPT ![h].status = "cancelled"],
        active |-> IF i > 0 THEN act ELSE DictDel(act, order_id)]

ReconcileOne(ords, act, fills, order_id) ==
    LET i == FirstFill(fills, order_id)
        h == act[order_id]
    IN [orders |-> IF i > 0
                   THEN [ords EXCEPT ![h].filled_size = fills[i].sz,
                                     ![h].status = "filled"]
                   ELSE [ords EXCEPT ![h].status = "cancelled"],
        active |-> DictDel(act, order_id)]

\* The tracked orders in S in the order the dict holds them (insertion order).
RECURSIVE InsertionOrder(_, _)
InsertionOrder(S, act) ==
    IF S = {} THEN <<>>
    ELSE LET oid == CHOOSE o \in S : \A p \in S : act[o] <= act[p]
         IN <<oid>> \o InsertionOrder(S \ {oid}, act)

\* The loop of lines 177-189 over the first n orders of todo.
RECURSIVE ReconcileEach(_, _, _, _, _)
ReconcileEach(ords, act, fills, todo, n) ==
    IF n = 0 THEN [orders |-> ords, active |-> act]
    ELSE LET after == ReconcileOne(ords, act, fills, Head(todo))
         IN ReconcileEach(after.orders, after.active, fills, Tail(todo), n - 1)

\* get_open_orders(): the ids the venue lists, and [] when the lookup raised.
OpenOrderIds(open_ok) == IF open_ok THEN DOMAIN venue_open ELSE {}

\* The tracked orders update_order_status takes for gone.
Gone(act, open_order_ids) == InsertionOrder(DOMAIN act \ open_order_ids, act)

\* OrderManager.update_order_status().  open_ok: info.open_orders answered;
\* n: the number of info.user_fills lookups that answered before one raised
\* (all of them when n = Len(todo)).
update_order_status ==
    \E open_ok \in BOOLEAN :
        LET todo == Gone(active_orders, OpenOrderIds(open_ok)) IN
        \E n \in 0..Len(todo) :
            LET after == ReconcileEach(orders, active_orders, venue_fills, todo, n) IN
            /\ orders' = after.orders
            /\ active_orders' = after.active
            /\ call' = Call("reconcile", 0, NoReply, 0, open_ok, n = Len(todo))
            /\ UNCHANGED <<venue_open, venue_fills, next_oid>>

\* ------------------------------------------------------------------ venue
VenueCall == Call("venue", 0, NoReply, 0, TRUE, TRUE)

\* The venue matches sz of an open order: a fill record is added, and the
\* order leaves the book when nothing of it is left. Orders of up to MaxLot
\* size units fill in lots, larger ones at once.
FillLots(left) == IF left <= MaxLot THEN {sz \in {1, 2, left} : sz <= left} ELSE {left}

VenueFill ==
    \E oid \in DOMAIN venue_open :
      \E sz \in FillLots(venue_open[oid].left) :
        /\ Len(venue_fills) < MaxFills
        /\ venue_fills' = Append(venue_fills, [oid |-> oid, sz |-> sz])
        /\ venue_open' = IF sz = venue_open[oid].left THEN DictDel(venue_open, oid)
                         ELSE [venue_open EXCEPT ![oid].left = @ - sz]
        /\ call' = VenueCall
        /\ UNCHANGED <<orders, active_orders, next_oid>>

\* An open order leaves the book without a fill (expired, cancelled by hand).
VenueDrop ==
    \E oid \in DOMAIN venue_open :
        /\ venue_open' = DictDel(venue_open, oid)
        /\ call' = VenueCall
        /\ UNCHANGED <<orders, active_orders, venue_fills, next_oid>>

\* ------------------------------------------------------------------ specification
SubmitLimit ==
    /\ \E in \in LimitInputs :
          create_limit_order(in[1], in[2], in[3], in[4], in[5], in[6],
                             OrderFailureReplies)
    /\ UNCHANGED <<risk_vars, strategy_vars, bot_vars, gateway_vars, loop_vars, thread_vars, signal_vars, history_vars>>

SubmitMarket ==
    /\ \E in \in MarketInputs :
          create_market_order(in[1], in[2], in[3], in[4], OrderFailureReplies)
    /\ UNCHANGED <<risk_vars, strategy_vars, bot_vars, gateway_vars, loop_vars, thread_vars, signal_vars, history_vars>>

Cancel ==
    /\ \E order_id \in OidSet, coin \in Coins : cancel_order(order_id, coin)
    /\ UNCHANGED <<risk_vars, strategy_vars, bot_vars, gateway_vars, loop_vars, thread_vars, signal_vars, history_vars>>

CancelAll ==
    /\ \E coin \in Coins \cup {""} : cancel_all_orders(coin)
    /\ UNCHANGED <<risk_vars, strategy_vars, bot_vars, gateway_vars, loop_vars, thread_vars, signal_vars, history_vars>>

Reconcile == update_order_status /\ UNCHANGED <<risk_vars, strategy_vars, bot_vars, gateway_vars, loop_vars, thread_vars, signal_vars, history_vars>>

VenueMoves == (VenueFill \/ VenueDrop) /\ UNCHANGED <<risk_vars, strategy_vars, bot_vars, gateway_vars, loop_vars, thread_vars, signal_vars, history_vars>>

\* The Order Ledger under any caller and any venue.
Next ==
    \/ SubmitLimit
    \/ SubmitMarket
    \/ Cancel
    \/ CancelAll
    \/ Reconcile
    \/ VenueMoves

Spec == Init /\ [][Next]_vars

\* ------------------------------------------------------------------ claims: Order Ledger
Terminal == {"filled", "cancelled", "rejected"}

\* The venue's reply acknowledges the order: status 'ok' and an oid in the
\* first entry of statuses.
VenueAcknowledges(r) ==
    /\ ~r.exc /\ r.has_status /\ r.status = "ok"
    /\ r.has_statuses /\ Len(r.statuses) >= 1 /\ r.statuses[1].has_oid

\* The venue's reply confirms a cancel: the call returned status 'ok'.
VenueConfirms(r) == ~r.exc /\ r.has_status /\ r.status = "ok"

\* C1: a submit whose reply has status 'ok' and an oid in its first status
\* entry returns the order and leaves it in active_orders under that oid;
\* every other submit returns None, leaves the order Rejected and outside
\* active_orders, and leaves active_orders as it was.
C1_SubmitTracksExactlyAcknowledged ==
    [][ Len(orders') = Len(orders) + 1 =>
          LET h == Len(orders')
              r == call'.reply
          IN IF VenueAcknowledges(r)
             THEN /\ call'.ret = h
                  /\ r.statuses[1].oid \in DOMAIN active_orders'
                  /\ active_orders'[r.statuses[1].oid] = h
                  /\ orders'[h].id = r.statuses[1].oid
                  /\ orders'[h].status = "pending"
             ELSE /\ call'.ret = 0
                  /\ orders'[h].status = "rejected"
                  /\ h \notin Range(active_orders')
                  /\ active_orders' = active_orders ]_vars

\* C1 witness: status 'ok' with a first status entry that has no oid was
\* rejected while an earlier, acknowledged order is still tracked.
C1_Witness ==
    /\ call.op = "submit" /\ call.ret = 0
    /\ call.reply.status = "ok" /\ Len(call.reply.statuses) = 1
    /\ ~call.reply.statuses[1].has_oid
    /\ orders[Len(orders)].status = "rejected"
    /\ Cardinality(DOMAIN active_orders) = 1

\* C6: a reconcile whose lookups all answered removes every tracked order
\* the venue no longer lists, Filled with the size of the (first) fill
\* record of its id when there is one and Cancelled otherwise, and leaves
\* every tracked order the venue still lists tracked and untouched.
C6_ReconcileSettlesGoneOrders ==
    [][ (call'.op = "reconcile" /\ call'.open_ok /\ call'.fills_ok) =>
          \A oid \in DOMAIN active_orders :
            LET h == active_orders[oid] IN
            IF oid \in DOMAIN venue_open
            THEN /\ oid \in DOMAIN active_orders'
                 /\ active_orders'[oid] = h
                 /\ orders'[h] = orders[h]
            ELSE /\ oid \notin DOMAIN active_orders'
                 /\ IF \E i \in 1..Len(venue_fills) : venue_fills[i].oid = oid
                    THEN /\ orders'[h].status = "filled"
                         /\ \E i \in 1..Len(venue_fills) :
                               /\ venue_fills[i].oid = oid
                               /\ \A j \in 1..(i - 1) : venue_fills[j].oid # oid
                               /\ orders'[h].filled_size = venue_fills[i].sz
                    ELSE /\ orders'[h].status = "cancelled"
                         /\ orders'[h].filled_size = orders[h].filled_size ]_vars

\* C6 witness: after a complete reconcile one order is Filled with the size
\* of the first of two fill records of its id, which differ in size.
C6_Witness ==
    /\ call.op = "reconcile" /\ call.open_ok /\ call.fills_ok
    /\ Len(venue_fills) = 2
    /\ venue_fills[1].oid = venue_fills[2].oid
    /\ venue_fills[1].sz # venue_fills[2].sz
    /\ \E h \in 1..Len(orders) :
          /\ orders[h].id = venue_fills[1].oid
          /\ orders[h].status = "filled"
          /\ orders[h].filled_size = venue_fills[1].sz
          /\ h \notin Range(active_orders)

\* C7: of two reconciles in a row with no venue state change in between,
\* the first having run to completion, the second leaves active_orders as
\* the first left it.
C7_ReconcileIdempotent ==
    [][ (call.op = "reconcile" /\ call.open_ok /\ call.fills_ok
         /\ call'.op = "reconcile")
        => active_orders' = active_orders ]_vars

\* C8: an order that is Filled, Cancelled or Rejected keeps its status and
\* stays outside active_orders; a status changes only from Pending (or
\* PartiallyFilled) to Filled or Cancelled, and a new order is Pending or
\* Rejected.
C8_StatusMonotone ==
    [][ /\ \A h \in 1..Len(orders) :
             /\ orders[h].status \in Terminal =>
                   /\ orders'[h].status = orders[h].status
                   /\ h \notin Range(active_orders')
             /\ orders'[h].status # orders[h].status =>
                   /\ orders[h].status \in {"pending", "partially_filled"}
                   /\ orders'[h].status \in {"filled", "cancelled"}
        /\ \A h \in (Len(orders) + 1)..Len(orders') :
             /\ orders'[h].status \in {"pending", "rejected"}
             /\ orders'[h].status = "rejected" => h \notin Range(active_orders') ]_vars

\* C8 witness: a cancelled and a filled order, both outside active_orders,
\* after a further reconcile.
C8_Witness ==
    /\ call.op = "reconcile"
    /\ \E h \in 1..Len(orders) : orders[h].status = "cancelled"
    /\ \E h \in 1..Len(orders) : orders[h].status = "filled"
    /\ active_orders = EmptyMap

\* C9: every entry of active_orders is stored under its own non-null venue
\* id and is Pending or PartiallyFilled; no order without a venue id and no
\* Rejected, Filled or Cancelled order is in active_orders.
C9_ActiveSetInvariant ==
    /\ \A k \in DOMAIN active_orders :
          /\ active_orders[k] \in 1..Len(orders)
          /\ k # NoneId
          /\ orders[active_orders[k]].id = k
          /\ orders[active_orders[k]].status \in {"pending", "partially_filled"}
    /\ \A h \in 1..Len(orders) :
          (orders[h].id = NoneId \/ orders[h].status \in Terminal)
             => h \notin Range(active_orders)

\* C9 witness: one order tracked, one rejected without an id, after a fill
\* at the venue.
C9_Witness ==
    /\ Cardinality(DOMAIN active_orders) = 1
    /\ \E h \in 1..Len(orders) : orders[h].id = NoneId /\ orders[h].status = "rejected"
    /\ Len(venue_fills) > 0

\* C10: cancel_order returns True on a reply with status 'ok', the order,
\* if tracked, being Cancelled and out of active_orders afterwards; on a
\* raised call or any other reply it returns False and changes neither
\* active_orders nor any order.
C10_CancelOrder ==
    [][ call'.op = "cancel" =>
          LET order_id == call'.arg IN
          IF VenueConfirms(call'.reply)
          THEN /\ call'.ret = 1
               /\ order_id \notin DOMAIN active_orders'
               /\ order_id \in DOMAIN active_orders =>
                     orders'[active_orders[order_id]].status = "cancelled"
               /\ \A k \in DOMAIN active_orders \ {order_id} :
                     /\ k \in DOMAIN active_orders'
                     /\ active_orders'[k] = active_orders[k]
                     /\ orders'[active_orders[k]] = orders[active_orders[k]]
          ELSE /\ call'.ret = 0
               /\ active_orders' = active_orders
               /\ orders' = orders ]_vars

\* C10 witness: a confirmed cancel of a tracked order, the other order
\* still tracked.
C10_Witness ==
    /\ call.op = "cancel" /\ call.ret = 1
    /\ \E h \in 1..Len(orders) :
          orders[h].id = call.arg /\ orders[h].status = "cancelled"
    /\ Cardinality(DOMAIN active_orders) = 1

\* C11: cancel_all_orders(coin) works on the venue's open-order list: the
\* cancels the venue confirms are of listed orders of that coin (of any
\* coin when coin is None), the return value is their number, each tracked
\* order whose cancel was confirmed is Cancelled and dropped whatever
\* happened to the cancels before it, every other tracked order is
\* untouched, and a failed lookup returns 0 and changes nothing.
C11_CancelAllOrders ==
    [][ call'.op = "cancel_all" =>
          LET coin == call'.coin
              listed == {oid \in DOMAIN venue_open :
                            coin = "" \/ venue_open[oid].coin = coin}
              confirmed == DOMAIN venue_open \ DOMAIN venue_open'
          IN IF ~call'.open_ok
             THEN /\ call'.ret = 0
                  /\ active_orders' = active_orders
                  /\ orders' = orders
                  /\ venue_open' = venue_open
             ELSE /\ confirmed \subseteq listed
                  /\ call'.ret = Cardinality(confirmed)
                  /\ Len(orders') = Len(orders)
                  /\ \A oid \in DOMAIN active_orders :
                        IF oid \in confirmed
                        THEN /\ oid \notin DOMAIN active_orders'
                             /\ orders'[active_orders[oid]].status = "cancelled"
                        ELSE /\ oid \in DOMAIN active_orders'
                             /\ active_orders'[oid] = active_orders[oid]
                             /\ orders'[active_orders[oid]] = orders[active_orders[oid]] ]_vars

\* C11 witness: cancel_all_orders("BTC") had one cancel confirmed, and the
\* ETH order listed by the venue is still open and tracked.
C11_Witness ==
    /\ call.op = "cancel_all" /\ call.coin = "BTC" /\ call.ret = 1
    /\ \E oid \in DOMAIN venue_open \cap DOMAIN active_orders :
          /\ venue_open[oid].coin = "ETH"
          /\ orders[active_orders[oid]].status = "pending"
    /\ \E h \in 1..Len(orders) :
          orders[h].coin = "BTC" /\ orders[h].status = "cancelled"

\* ------------------------------------------------------------------ Risk Monitor
\* get_current_metrics returns a RiskMetrics (lines 42-43 and the except).
AvailableUnparsed(us) == ~us.exc /\ us.truthy /\ us.has_margin

Available(us) == ~us.exc /\ us.truthy /\ us.has_margin /\ us.parse_ok

\* A quotient n/d of two floats that the checks compare: [n, d] with d > 0.
Quot(n, d) == [n |-> n, d |-> d]

\* Lines 52-72: the RiskMetrics of an answer.
Metrics(us) ==
    [total_balance |-> us.accountValue,
     available_balance |-> us.accountValue - us.totalMarginUsed,
     margin_used |-> us.totalMarginUsed,
     total_position_value |-> us.totalNtlPos,
     leverage |-> IF us.accountValue > 0
                  THEN Quot(us.totalNtlPos, us.accountValue) ELSE Quot(0, 1),
     margin_ratio |-> IF us.accountValue > 0
                      THEN Quot(us.totalMarginUsed, us.accountValue) ELSE Quot(0, 1)]

\* Lines 74-80: the baselines after a successful fetch on date now.
StartingAfter(us, sb) == IF sb.is_none THEN Some(us.accountValue) ELSE sb

DailyAfterSeedOnly(us, sb, dsb, lrd, now) ==
    IF sb.is_none THEN Some(us.accountValue) ELSE dsb

DailyAfter(us, sb, dsb, lrd, now) ==
    IF now > lrd THEN Some(us.accountValue)
    ELSE IF sb.is_none THEN Some(us.accountValue) ELSE dsb

LastResetAfter(lrd, now) == IF now > lrd THEN now ELSE lrd

\* Python's "not x" of an Optional[float]: None and 0.0 are falsy.
Falsy(b) == b.is_none \/ b.value = 0

\* n / d <= pct / 100, for d # 0.
FracLeqPct(n, d, pct) ==
    IF d > 0 THEN 100 * n <= pct * d ELSE 100 * n >= pct * d

\* RiskManager._check_drawdown
check_drawdown_vacuous(metrics, sb) == TRUE

check_drawdown(metrics, sb) ==
    IF Falsy(sb) THEN TRUE
    ELSE FracLeqPct(sb.value - metrics.total_balance, sb.value, max_drawdown_pct)

\* RiskManager._check_daily_loss
check_daily_loss(metrics, dsb) ==
    IF Falsy(dsb) THEN TRUE
    ELSE FracLeqPct(dsb.value - metrics.total_balance, dsb.value, daily_loss_limit_pct)

\* Line 96: the result when there are no metrics.
NoMetricsFailOpen ==
    RiskChecks(FALSE, FALSE, FALSE, FALSE, FALSE, TRUE, FALSE, <<>>)

NoMetricsResult ==
    RiskChecks(FALSE, FALSE, FALSE, FALSE, FALSE, FALSE, TRUE, <<"No metrics available">>)

\* Lines 98-125: the checks on the metrics, sb and dsb being the baselines
\* after the fetch.
LimitChecksMarginInclusive(metrics, sb, dsb) ==
    LET leverage_ok == metrics.leverage.n <= max_leverage * metrics.leverage.d
        margin_ratio_ok ==
            100 * metrics.margin_ratio.n <= margin_ratio_limit_pct * metrics.margin_ratio.d
        drawdown_ok == check_drawdown(metrics, sb)
        daily_loss_ok == check_daily_loss(metrics, dsb)
        all_ok == leverage_ok /\ margin_ratio_ok /\ drawdown_ok /\ daily_loss_ok
    IN RiskChecks(TRUE, leverage_ok, margin_ratio_ok, drawdown_ok, daily_loss_ok,
                  all_ok, ~all_ok, IF all_ok THEN <<>> ELSE <<"Risk limit exceeded">>)

LimitChecks(metrics, sb, dsb) ==
    LET leverage_ok == metrics.leverage.n <= max_leverage * metrics.leverage.d
        margin_ratio_ok ==
            100 * metrics.margin_ratio.n < margin_ratio_limit_pct * metrics.margin_ratio.d
        drawdown_ok == check_drawdown(metrics, sb)
        daily_loss_ok == check_daily_loss(metrics, dsb)
        all_ok == leverage_ok /\ margin_ratio_ok /\ drawdown_ok /\ daily_loss_ok
        reasons ==
            (IF leverage_ok THEN <<>> ELSE <<"Leverage too high">>)
            \o (IF margin_ratio_ok THEN <<>> ELSE <<"Margin ratio too high">>)
            \o (IF drawdown_ok THEN <<>> ELSE <<"Max drawdown exceeded">>)
            \o (IF daily_loss_ok THEN <<>> ELSE <<"Daily loss limit exceeded">>)
    IN RiskChecks(TRUE, leverage_ok, margin_ratio_ok, drawdown_ok, daily_loss_ok,
                  all_ok, ~all_ok, reasons)

\* RiskManager.get_current_metrics() called by the operation `by`, the
\* venue answering us: the Risk Monitor's state afterwards.
get_current_metrics(by, us) ==
    /\ user_state' = [by |-> by, reply |-> us]
    /\ today' = today
    /\ IF Available(us)
       THEN /\ starting_balance' = StartingAfter(us, starting_balance)
            /\ daily_starting_balance' =
                  DailyAfter(us, starting_balance, daily_starting_balance,
                             last_reset_date, today)
            /\ last_reset_date' = LastResetAfter(last_reset_date, today)
       ELSE UNCHANGED <<starting_balance, daily_starting_balance, last_reset_date>>

\* RiskManager.check_risk_limits()
check_risk_limits(us) ==
    /\ get_current_metrics("check_risk_limits", us)
    /\ risk_checks' = IF Available(us)
                      THEN LimitChecks(Metrics(us), starting_balance',
                                       daily_starting_balance')
                      ELSE NoMetricsResult

\* Lines 74-80 as a function: the baselines [sb, dsb, lrd] after a fetch
\* that the venue answered us on date now.
BaselinesAfter(us, b, now) ==
    IF Available(us)
    THEN [sb |-> StartingAfter(us, b.sb),
          dsb |-> DailyAfter(us, b.sb, b.dsb, b.lrd, now),
          lrd |-> LastResetAfter(b.lrd, now)]
    ELSE b

\* Lines 142-155: max_size on the reply us of the fetch, kept as the
\* division of line 153: max_allowed_value (in cents) over current_price
\* (in cents per coin), for a RiskManager of the given max_leverage. The 0
\* of line 144 is kept as 0 over the same price.
position_size_limit_pct_only(us, price, leverage) ==
    IF ~Available(us) THEN Quot(0, 100 * price)
    ELSE Quot(Metrics(us).total_balance * max_position_size_pct, 100 * price)

position_size_limit(us, price, leverage) ==
    IF ~Available(us) THEN Quot(0, 100 * price)
    ELSE LET metrics == Metrics(us)
             max_position_value == metrics.total_balance * max_position_size_pct
             max_position_with_leverage == metrics.available_balance * leverage * 100
             max_allowed_value == Min({max_position_value, max_position_with_leverage})
         IN Quot(max_allowed_value, 100 * price)

\* Line 153, "max_allowed_value / current_price", raises ZeroDivisionError:
\* the metrics are there and the price is 0.
limit_division_raises(us, price) == Available(us) /\ price = 0

\* RiskManager.calculate_position_size_limit(coin, current_price); raised
\* tells the call ended in an exception instead of a return value.
calculate_position_size_limit(us, price, leverage) ==
    /\ get_current_metrics("calculate_position_size_limit", us)
    /\ position_limit' =
          IF limit_division_raises(us, price)
          THEN [PositionLimit("calculate_position_size_limit", 0, price, leverage, 1,
                              Quot(0, 1), FALSE) EXCEPT !.raised = TRUE]
          ELSE PositionLimit("calculate_position_size_limit", 0, price, leverage, 1,
                             position_size_limit(us, price, leverage), FALSE)
    /\ UNCHANGED risk_checks

\* Line 164, "size > max_size": size in size units of 1e-4 coin, max_size
\* the quotient of cents by cents per coin (both sides divided by 100).
ExceedsLimit(size, max_size) ==
    size * (max_size.d \div 100) > max_size.n * Pow10(size_decimals - 2)

\* RiskManager.should_allow_new_position(coin, size, price): us1 answers the
\* fetch of check_risk_limits, us2 the fetch of
\* calculate_position_size_limit, which is made only when the checks pass.
should_allow_new_position(size, price, us1, us2) ==
    LET b0 == [sb |-> starting_balance, dsb |-> daily_starting_balance,
               lrd |-> last_reset_date]
        b1 == BaselinesAfter(us1, b0, today)
        checks == IF Available(us1)
                  THEN LimitChecks(Metrics(us1), b1.sb, b1.dsb)
                  ELSE NoMetricsResult
        b2 == BaselinesAfter(us2, b1, today)
        max_size == position_size_limit(us2, price, max_leverage)
    IN /\ risk_checks' = checks
       /\ today' = today
       /\ IF ~checks.all_checks_passed
          THEN /\ user_state' = [by |-> "check_risk_limits", reply |-> us1]
               /\ starting_balance' = b1.sb
               /\ daily_starting_balance' = b1.dsb
               /\ last_reset_date' = b1.lrd
               /\ position_limit' =
                     PositionLimit("should_allow_new_position", size, price,
                                   max_leverage, 1, Quot(0, 100 * price), FALSE)
          ELSE /\ user_state' = [by |-> "calculate_position_size_limit", reply |-> us2]
               /\ starting_balance' = b2.sb
               /\ daily_starting_balance' = b2.dsb
               /\ last_reset_date' = b2.lrd
               /\ position_limit' =
                     IF limit_division_raises(us2, price)
                     THEN [PositionLimit("should_allow_new_position", size, price,
                                         max_leverage, 2, Quot(0, 1), FALSE)
                              EXCEPT !.raised = TRUE]
                     ELSE PositionLimit("should_allow_new_position", size, price,
                                        max_leverage, 2, max_size,
                                        ~ExceedsLimit(size, max_size))

\* The local date moves on.
DayPasses ==
    /\ today < MaxDays
    /\ today' = today + 1
    /\ UNCHANGED <<starting_balance, daily_starting_balance, last_reset_date,
                   user_state, risk_checks, position_limit>>

CheckRiskLimits ==
    /\ \E us \in UserStateReplies : check_risk_limits(us)
    /\ UNCHANGED position_limit
    /\ UNCHANGED <<ledger_vars, strategy_vars, bot_vars, gateway_vars, loop_vars, thread_vars, signal_vars, history_vars>>

Midnight == DayPasses /\ UNCHANGED <<ledger_vars, strategy_vars, bot_vars, gateway_vars, loop_vars, thread_vars, signal_vars, history_vars>>

\* The Risk Monitor under any caller and any venue.
NextRisk ==
    \/ CheckRiskLimits
    \/ Midnight

SpecRisk == Init /\ [][NextRisk]_vars

\* Lines 82-85: the history after the snapshot of a successful fetch is
\* appended, cut to its last history_keep entries once it is longer than
\* history_cap.
history_after_untrimmed(history, snapshot) == Append(history, snapshot)

history_after(history, snapshot) ==
    LET appended == Append(history, snapshot)
    IN IF Len(appended) > history_cap
       THEN SubSeq(appended, Len(appended) - history_keep + 1, Len(appended))
       ELSE appended

\* get_current_metrics() with its history, lines 38-91: the venue answers
\* us at clock time, the stamp of the snapshot (datetime.now()); the clock
\* has moved on by the next fetch. The history is written by this
\* operation only and read by none.
fetch_metrics(us) ==
    /\ get_current_metrics("get_current_metrics", us)
    /\ IF Available(us)
       THEN /\ time - StartTime < MaxFetches
            /\ risk_metrics_history' =
                  history_after(risk_metrics_history,
                                [total_balance |-> Metrics(us).total_balance,
                                 timestamp |-> time])
            /\ time' = time + 1
       ELSE UNCHANGED <<risk_metrics_history, time>>
    /\ UNCHANGED <<risk_checks, position_limit>>

\* The venue of the history: a failed fetch (the call raises, the response
\* is empty, has no marginSummary or has values that do not parse) or an
\* account of 1000.
HistoryUserStates ==
    UserStateFailures \cup { UserState(FALSE, TRUE, TRUE, TRUE, 1000, 0, 0) }

FetchMetrics ==
    /\ \E us \in HistoryUserStates : fetch_metrics(us)
    /\ UNCHANGED <<ledger_vars, strategy_vars, bot_vars, limiter, request, loop_vars,
                   thread_vars, signal_vars>>

\* One RiskManager fetching metrics over days.
NextHistory ==
    \/ FetchMetrics
    \/ Midnight

SpecHistory == Init /\ [][NextHistory]_vars

\* The account states at the thresholds of the leverage and margin-ratio
\* checks: margin used just below and at 0.8 of an account of 1000,
\* notional at and just above 3.0 times it, and the same amounts on an
\* empty and on a negative account.
ThresholdUserStates ==
    { UserState(FALSE, TRUE, TRUE, TRUE, av, mu, ntl) :
        av \in {-100, 0, 1000}, mu \in {799, 800}, ntl \in {3000, 3001} }

CheckRiskLimitsAtThresholds ==
    /\ \E us \in ThresholdUserStates \cup UserStateFailures : check_risk_limits(us)
    /\ UNCHANGED position_limit
    /\ UNCHANGED <<ledger_vars, strategy_vars, bot_vars, gateway_vars, loop_vars, thread_vars, signal_vars, history_vars>>

\* The risk checks on accounts at the thresholds.
NextThresholds ==
    \/ CheckRiskLimitsAtThresholds
    \/ Midnight

SpecThresholds == Init /\ [][NextThresholds]_vars

\* The account states the venue reports to the callers of the position
\* limit: a failed fetch, 1000 free of margin, and 880 and 1000 with 990 of
\* margin used.
LimitUserStates ==
    { UserState(TRUE, FALSE, FALSE, FALSE, 0, 0, 0),
      UserState(FALSE, TRUE, TRUE, TRUE, 1000, 0, 0),
      UserState(FALSE, TRUE, TRUE, TRUE, 880, 990, 0),
      UserState(FALSE, TRUE, TRUE, TRUE, 1000, 990, 0) }

CalculatePositionSizeLimit ==
    /\ \E us \in LimitUserStates, price \in LimitPrices :
          calculate_position_size_limit(us, price, max_leverage)
    /\ UNCHANGED <<ledger_vars, strategy_vars, bot_vars, gateway_vars, loop_vars, thread_vars, signal_vars, history_vars>>

ShouldAllowNewPosition ==
    /\ \E size \in LimitSizes, price \in LimitPrices :
          \E us1 \in LimitUserStates, us2 \in LimitUserStates :
             should_allow_new_position(size, price, us1, us2)
    /\ UNCHANGED <<ledger_vars, strategy_vars, bot_vars, gateway_vars, loop_vars, thread_vars, signal_vars, history_vars>>

\* The position limit of the bot's RiskManager under any caller and venue.
NextPositionLimit ==
    \/ CalculatePositionSizeLimit
    \/ ShouldAllowNewPosition
    \/ Midnight

SpecPositionLimit == Init /\ [][NextPositionLimit]_vars

\* calculate_position_size_limit as a function of its inputs: RiskManagers
\* built with any max_leverage of LeverageConfigs, on any account state and
\* price.
PositionSizeLimitUnder ==
    /\ \E leverage \in LeverageConfigs, us \in UserStateReplies, price \in LimitPrices :
          calculate_position_size_limit(us, price, leverage)
    /\ UNCHANGED <<ledger_vars, strategy_vars, bot_vars, gateway_vars, loop_vars, thread_vars, signal_vars, history_vars>>

NextSizeLimit ==
    \/ PositionSizeLimitUnder
    \/ Midnight

SpecSizeLimit == Init /\ [][NextSizeLimit]_vars

\* The prices the position limit is asked at when any numeric argument is
\* allowed: 0 next to a market price.
BoundaryPrices == {0, 100}

CalculatePositionSizeLimitAtAnyPrice ==
    /\ \E us \in LimitUserStates, price \in BoundaryPrices :
          calculate_position_size_limit(us, price, max_leverage)
    /\ UNCHANGED <<ledger_vars, strategy_vars, bot_vars, gateway_vars, loop_vars, thread_vars, signal_vars, history_vars>>

ShouldAllowNewPositionAtAnyPrice ==
    /\ \E size \in LimitSizes, price \in BoundaryPrices :
          \E us1 \in LimitUserStates, us2 \in LimitUserStates :
             should_allow_new_position(size, price, us1, us2)
    /\ UNCHANGED <<ledger_vars, strategy_vars, bot_vars, gateway_vars, loop_vars, thread_vars, signal_vars, history_vars>>

\* The position limit under any caller, any venue and any price argument.
NextBoundary ==
    \/ CalculatePositionSizeLimitAtAnyPrice
    \/ ShouldAllowNewPositionAtAnyPrice
    \/ Midnight

SpecBoundary == Init /\ [][NextBoundary]_vars

\* ------------------------------------------------------------------ claims: Risk Monitor
\* The account metrics could not be obtained: the call raised, the response
\* was empty, or it had no marginSummary.
MetricsUnobtainable(us) == us.exc \/ ~us.truthy \/ ~us.has_margin

\* C2: when check_risk_limits cannot obtain the account metrics it returns
\* all_checks_passed = False with reason 'No metrics available', whatever
\* the baselines are.
C2_FailClosed ==
    (user_state.by = "check_risk_limits" /\ MetricsUnobtainable(user_state.reply))
       => /\ ~risk_checks.all_checks_passed
          /\ risk_checks.has_reason
          /\ risk_checks.reason = <<"No metrics available">>

\* C2 witness: the venue call of a check raised on a later day, with both
\* baselines captured and the previous balance within every limit.
C2_Witness ==
    /\ user_state.by = "check_risk_limits" /\ user_state.reply.exc
    /\ ~starting_balance.is_none /\ starting_balance.value = 1000
    /\ ~daily_starting_balance.is_none
    /\ today > 0
    /\ ~risk_checks.all_checks_passed

\* The loss from baseline to current is no more than pct percent of the
\* baseline: (baseline - current) / baseline <= pct / 100, a loss from a
\* zero baseline being beyond every limit.
LossWithin(baseline, current, pct) ==
    IF baseline > 0 THEN 100 * (baseline - current) <= pct * baseline
    ELSE IF baseline < 0 THEN 100 * (baseline - current) >= pct * baseline
    ELSE current >= 0

\* C13: from the first successful metrics fetch onward the drawdown and
\* daily-loss checks are enforced: every check that obtains metrics
\* compares the loss from the baseline with max_drawdown_pct and
\* daily_loss_limit_pct, whatever account value seeded the baseline.
C13_ChecksEnforcedOnceSeeded ==
    (user_state.by = "check_risk_limits" /\ Available(user_state.reply))
       => /\ ~starting_balance.is_none /\ ~daily_starting_balance.is_none
          /\ risk_checks.drawdown_ok =
                LossWithin(starting_balance.value, user_state.reply.accountValue,
                           max_drawdown_pct)
          /\ risk_checks.daily_loss_ok =
                LossWithin(daily_starting_balance.value, user_state.reply.accountValue,
                           daily_loss_limit_pct)

\* C14: with a positive baseline, drawdown_ok is True exactly when
\* (starting_balance - current) / starting_balance <= max_drawdown_pct and
\* daily_loss_ok exactly when (daily_starting_balance - current) /
\* daily_starting_balance <= daily_loss_limit_pct; a gain fails neither;
\* starting balance 1000 and current balance 880 give drawdown_ok = False.
C14_DrawdownAndDailyLoss ==
    (user_state.by = "check_risk_limits" /\ Available(user_state.reply))
       => LET current == user_state.reply.accountValue
              sb == starting_balance.value
              dsb == daily_starting_balance.value
          IN /\ sb > 0 =>
                   /\ risk_checks.drawdown_ok =
                         (100 * (sb - current) <= max_drawdown_pct * sb)
                   /\ current >= sb => risk_checks.drawdown_ok
                   /\ (sb = 1000 /\ current = 880) => ~risk_checks.drawdown_ok
             /\ dsb > 0 =>
                   /\ risk_checks.daily_loss_ok =
                         (100 * (dsb - current) <= daily_loss_limit_pct * dsb)
                   /\ current >= dsb => risk_checks.daily_loss_ok

\* C14 witness: a check with starting balance 1000 and current balance 880.
C14_Witness ==
    /\ user_state.by = "check_risk_limits" /\ Available(user_state.reply)
    /\ starting_balance.value = 1000
    /\ user_state.reply.accountValue = 880
    /\ ~risk_checks.drawdown_ok

\* The claimed value of calculate_position_size_limit times the price, in
\* cents: min(account value * max_position_size_pct, (account value -
\* margin used) * max_leverage). Two limits at one price compare as these
\* values do.
ClaimedLimitValue(us, leverage) ==
    LET by_pct == us.accountValue * max_position_size_pct
        by_leverage == (us.accountValue - us.totalMarginUsed) * leverage * 100
    IN IF by_pct <= by_leverage THEN by_pct ELSE by_leverage

\* C15: should_allow_new_position returns True exactly when check_risk_limits
\* passes all checks and size <= calculate_position_size_limit(symbol, price);
\* it returns False whenever the metrics are unavailable for either of the
\* fetches it makes, for every size.
C15_ShouldAllowNewPosition ==
    position_limit.op = "should_allow_new_position"
       => /\ position_limit.ret =
                (/\ risk_checks.all_checks_passed
                 /\ IF Available(user_state.reply)
                    THEN position_limit.size * position_limit.price
                            <= ClaimedLimitValue(user_state.reply, max_leverage)
                                  * Pow10(size_decimals - 2)
                    ELSE position_limit.size <= 0)
          /\ ~Available(user_state.reply) => ~position_limit.ret

\* C16: calculate_position_size_limit equals min(account value *
\* max_position_size_pct, (account value - margin used) * max_leverage) /
\* price, and 0 when metrics are unavailable; account value 1000, margin
\* used 0 and price 50000 give 0.004.
C16_PositionSizeLimitValue ==
    position_limit.op = "calculate_position_size_limit"
       => LET us == user_state.reply
              max_size == position_limit.max_size
          IN IF Available(us)
             THEN /\ max_size.d = 100 * position_limit.price
                  /\ max_size.n = ClaimedLimitValue(us, position_limit.max_leverage)
                  /\ (/\ us.accountValue = 1000 /\ us.totalMarginUsed = 0
                      /\ position_limit.price = 50000
                      /\ position_limit.max_leverage = 3)
                        => max_size.n * 1000 = 4 * max_size.d
             ELSE max_size.n = 0

\* C16 witness: the limit computed for account value 1000, margin used 0 at
\* price 50000, and a limit set by the leverage term.
C16_Witness ==
    /\ position_limit.op = "calculate_position_size_limit"
    /\ Available(user_state.reply)
    /\ user_state.reply.accountValue = 1000
    /\ user_state.reply.totalMarginUsed = 0
    /\ position_limit.price = 50000
    /\ position_limit.max_size.n * 1000 = 4 * position_limit.max_size.d

\* C17: price, margin used and max_position_size_pct held fixed,
\* calculate_position_size_limit does not increase when max_leverage is
\* lowered and does not decrease when the account value is raised, whenever
\* metrics are available.
C17_LimitMonotone ==
    [][ LET a == position_limit
            b == position_limit'
            ua == user_state.reply
            ub == user_state'.reply
        IN (/\ a.op = "calculate_position_size_limit"
            /\ b.op = "calculate_position_size_limit"
            /\ Available(ua) /\ Available(ub)
            /\ a.price = b.price
            /\ ua.totalMarginUsed = ub.totalMarginUsed)
              => /\ (b.max_leverage <= a.max_leverage /\ ub.accountValue = ua.accountValue)
                       => b.max_size.d = a.max_size.d /\ b.max_size.n <= a.max_size.n
                 /\ (b.max_leverage = a.max_leverage /\ ub.accountValue >= ua.accountValue)
                       => b.max_size.d = a.max_size.d /\ b.max_size.n >= a.max_size.n ]_vars

\* ------------------------------------------------------------------ execution pipeline
Abs(x) == IF x < 0 THEN -x ELSE x

\* round(n / d) as Python rounds: to the nearest integer, ties to even (d > 0).
RoundHalfEven(n, d) ==
    LET q == n \div d
        r == n % d
    IN IF 2 * r < d THEN q
       ELSE IF 2 * r > d THEN q + 1
       ELSE IF q % 2 = 0 THEN q ELSE q + 1

\* round(size, sz_decimals) of a size given in size units.
RoundSize(size, sz_decimals) ==
    IF sz_decimals >= size_decimals THEN size
    ELSE LET lot == Pow10(size_decimals - sz_decimals)
         IN RoundHalfEven(size, lot) * lot

\* szDecimals of the venue's meta for a coin.
VenueSzDecimals(coin) == IF coin = "BTC" THEN 5 ELSE 2

\* get_sz_decimals(coin): the venue's value, the default when meta fails.
SzDecimalsReplies(coin) == {default_sz_decimals, VenueSzDecimals(coin)}

\* The failure replies to exchange.order the pipeline is run against.
PipelineOrderFailures ==
    { Reply(TRUE, FALSE, FALSE, "", FALSE, FALSE, FALSE, <<>>),
      Reply(FALSE, TRUE, TRUE, "ok", TRUE, TRUE, TRUE, <<StatusEntry(FALSE, NoneId)>>) }

\* The replies to the info.user_state call of calculate_position_size.
SizingUserStates ==
    { UserState(TRUE, FALSE, FALSE, FALSE, 0, 0, 0),
      UserState(FALSE, TRUE, FALSE, FALSE, 0, 0, 0),
      UserState(FALSE, TRUE, TRUE, TRUE, 0, 0, 0),
      UserState(FALSE, TRUE, TRUE, TRUE, 1000, 0, 0),
      UserState(FALSE, TRUE, TRUE, TRUE, 1000, 990, 0) }

\* order_manager.get_all_positions() as update_positions caches it.
update_positions(list) == positions' = list

\* BaseStrategy.should_close_position(coin), md being the market data it
\* fetches: "close", "keep", or "raise" (unrealized_pnl / margin_used
\* divides by zero).
should_close_position(coin, md) ==
    IF coin \notin DOMAIN positions THEN "keep"
    ELSE IF ~md.ok THEN "keep"
    ELSE IF positions[coin].margin_used = 0 THEN "raise"
    ELSE LET pnl100 == positions[coin].unrealized_pnl * 100
             margin == positions[coin].margin_used
         IN IF pnl100 >= take_profit_percent * margin THEN "close"
            ELSE IF pnl100 <= -stop_loss_percent * margin THEN "close"
            ELSE "keep"

\* A signal of SimpleMAStrategy.generate_signals.
Signal(side, order_type, post_only, reduce_only, confidence) ==
    [side |-> side, order_type |-> order_type, post_only |-> post_only,
     reduce_only |-> reduce_only, confidence |-> confidence]

NoSignal == Signal("", "", FALSE, FALSE, 0)

\* SimpleMAStrategy.generate_signals(coin): what it may return, whatever the
\* candles are: None, a buy on a bullish crossover without a position, a
\* reduce-only market sell on a bearish crossover with a long position.
generate_signals(coin) ==
    LET has_position == coin \in DOMAIN positions /\ positions[coin].size # 0
    IN {NoSignal}
       \cup (IF ~has_position
             THEN {Signal("buy", "limit", TRUE, FALSE, buy_confidence)} ELSE {})
       \cup (IF has_position /\ positions[coin].size > 0
             THEN {Signal("sell", "market", FALSE, TRUE, sell_confidence)} ELSE {})

\* SimpleMAStrategy.calculate_position_size(coin, signal) in size units, md
\* and us being the market data and the account state it fetches.
calculate_position_size_uncapped(coin, signal, md, us) ==
    IF ~md.ok THEN 0
    ELSE IF us.exc \/ (us.has_margin /\ ~us.parse_ok) THEN 0
    ELSE LET base10 == position_size_usd * signal.confidence
             max10 == (us.accountValue * account_cap_pct) \div 10
             usd10 == IF us.has_margin /\ base10 > max10 THEN max10 ELSE base10
         IN RoundHalfEven(usd10 * 2 * Pow10(size_decimals), 10 * md.mid2)

calculate_position_size(coin, signal, md, us) ==
    IF Cardinality(DOMAIN positions) >= max_positions /\ coin \notin DOMAIN positions
    THEN 0
    ELSE IF ~md.ok THEN 0
    ELSE IF us.exc \/ (us.has_margin /\ ~us.parse_ok) THEN 0
    ELSE LET base10 == position_size_usd * signal.confidence
             max10 == (us.accountValue * account_cap_pct) \div 10
             usd10 == IF us.has_margin /\ base10 > max10 THEN max10 ELSE base10
         IN RoundHalfEven(usd10 * 2 * Pow10(size_decimals), 10 * md.mid2)

\* BaseStrategy._calculate_limit_price
calculate_limit_price(md, side) == IF side = "buy" THEN md.bid ELSE md.ask

RunCall == Call("run", 0, NoReply, 0, TRUE, TRUE)

\* The loop of run moves to the next coin, or ends.
NextCoin ==
    /\ run_idx' = IF run_idx = Len(coins) THEN 0 ELSE run_idx + 1
    /\ run_status' = "ok"

\* A step of the pipeline that places no order.
NoOrder ==
    /\ call' = RunCall
    /\ UNCHANGED <<orders, active_orders, venue_open, venue_fills, next_oid>>

\* BaseStrategy.execute_signal(coin, signal): md1 and us are fetched by the
\* sizing, sz_decimals and md2 by execute_signal itself.
execute_signal(coin, signal, md1, us, sz_decimals, md2) ==
    LET position_size == calculate_position_size(coin, signal, md1, us)
        rounded == RoundSize(position_size, sz_decimals)
        price == IF signal.order_type = "market" THEN 0
                 ELSE calculate_limit_price(md2, signal.side)
    IN IF signal = NoSignal \/ signal.side = ""
       THEN /\ NoOrder
            /\ sizing' = NoSizing
       ELSE IF position_size <= 0 \/ ~md2.ok
       THEN /\ NoOrder
            /\ sizing' = Sizing(coin, us, md1.mid2, position_size, 0,
                                ~signal.reduce_only, FALSE)
       ELSE /\ sizing' = [Sizing(coin, us, md1.mid2, rounded,
                                 calculate_limit_price(md2, signal.side),
                                 ~signal.reduce_only, TRUE)
                            EXCEPT !.computed = position_size]
            /\ IF signal.order_type = "market"
               THEN create_market_order(coin, signal.side, rounded, signal.reduce_only,
                                        PipelineOrderFailures)
               ELSE create_limit_order(coin, signal.side, rounded, price,
                                       signal.reduce_only, signal.post_only,
                                       PipelineOrderFailures)

\* BaseStrategy.close_position(coin)
close_position(coin, sz_decimals) ==
    /\ sizing' = NoSizing
    /\ create_market_order(coin,
                           IF positions[coin].size > 0 THEN "sell" ELSE "buy",
                           RoundSize(Abs(positions[coin].size), sz_decimals),
                           TRUE, PipelineOrderFailures)

\* BaseStrategy.run(coins), lines 140-142: the position cache is refreshed
\* from one of position_lists and the loop starts.
RunStart(position_lists) ==
    /\ run_idx = 0
    /\ \E list \in position_lists : update_positions(list)
    /\ run_idx' = 1
    /\ run_status' = "ok"
    /\ sizing' = NoSizing
    /\ handling' = NoHandling
    /\ NoOrder

\* BaseStrategy.run(coins), lines 143-148, for the coin the loop is at, the
\* venue answering the market-data and account-state requests from
\* market_data and user_states.
RunCoin(market_data, user_states) ==
    /\ run_idx \in 1..Len(coins)
    /\ UNCHANGED positions
    /\ LET coin == coins[run_idx] IN
       \E md0 \in market_data :
          LET verdict == should_close_position(coin, md0) IN
          \/ /\ verdict = "raise"
             /\ run_idx' = 0
             /\ run_status' = "raised"
             /\ sizing' = NoSizing
             /\ handling' = Handling(coin, verdict, FALSE, NoSignal)
             /\ NoOrder
          \/ /\ verdict = "close"
             /\ \E d \in SzDecimalsReplies(coin) : close_position(coin, d)
             /\ handling' = Handling(coin, verdict, FALSE, NoSignal)
             /\ NextCoin
          \/ /\ verdict = "keep"
             /\ \E signal \in generate_signals(coin) :
                   /\ handling' = Handling(coin, verdict, TRUE, signal)
                   /\ IF signal = NoSignal
                      THEN sizing' = NoSizing /\ NoOrder
                      ELSE \E md1 \in market_data, us \in user_states,
                              d \in SzDecimalsReplies(coin), md2 \in market_data :
                              execute_signal(coin, signal, md1, us, d, md2)
             /\ NextCoin

\* BaseStrategy.execute_signal(coin, signal) on its own, outside run, for
\* any of signals.
ExecuteSignal(signals, market_data, user_states) ==
    /\ run_idx = 0
    /\ UNCHANGED <<positions, run_idx, run_status>>
    /\ \E i \in 1..Len(coins), signal \in signals,
          md1 \in market_data, us \in user_states, md2 \in market_data :
          /\ handling' = Handling(coins[i], "", FALSE, signal)
          /\ \E d \in SzDecimalsReplies(coins[i]) :
                execute_signal(coins[i], signal, md1, us, d, md2)

\* The signals execute_signal is handed: None, a signal without a side, a
\* post-only limit buy.
ExecuteSignals ==
    { NoSignal,
      Signal("", "limit", TRUE, FALSE, buy_confidence),
      Signal("buy", "limit", TRUE, FALSE, buy_confidence) }

RunStarts == RunStart(PositionLists) /\ UNCHANGED <<risk_vars, bot_vars, gateway_vars, loop_vars, thread_vars, signal_vars, history_vars>>

RunsCoin == RunCoin(MarketDataReplies, SizingUserStates) /\ UNCHANGED <<risk_vars, bot_vars, gateway_vars, loop_vars, thread_vars, signal_vars, history_vars>>

\* The venue answering execute_signal called on its own: the order book and
\* an account worth 1000 USD.
ExecuteMarketData == { MarketData(TRUE, 99, 101) }

ExecuteUserStates == { UserState(FALSE, TRUE, TRUE, TRUE, 1000, 0, 0) }

ExecutesSignal == ExecuteSignal(ExecuteSignals, ExecuteMarketData, ExecuteUserStates) /\ UNCHANGED <<risk_vars, bot_vars, gateway_vars, loop_vars, thread_vars, signal_vars, history_vars>>

\* The execution pipeline under any venue.
NextStrategy ==
    \/ RunStarts
    \/ RunsCoin
    \/ ExecutesSignal

SpecStrategy == Init /\ [][NextStrategy]_vars

\* ------------------------------------------------------------------ claims: execution pipeline
\* calculate_position_size_limit on the account state us at price, as the
\* claim states it, compared with a size in size units:
\* size <= min(account value * max_position_size_pct,
\*             available balance * max_leverage) / price,
\* the limit being 0 when us gives no metrics.
WithinPositionSizeLimit(size, us, price) ==
    IF us.exc \/ ~us.truthy \/ ~us.has_margin \/ ~us.parse_ok
    THEN size <= 0
    ELSE LET by_pct == us.accountValue * max_position_size_pct
             by_leverage == (us.accountValue - us.totalMarginUsed) * max_leverage * 100
             limit100 == IF by_pct <= by_leverage THEN by_pct ELSE by_leverage
         IN size * price * 100 <= limit100 * Pow10(size_decimals)

\* C4: every position-opening order the pipeline submits is no larger than
\* the Risk Monitor's position_size_limit for its price on the account
\* state of its sizing.
C4_OrderWithinPositionSizeLimit ==
    (sizing.submitted /\ sizing.opening)
       => WithinPositionSizeLimit(sizing.size, sizing.us, sizing.price)

\* ------------------------------------------------------------------ control loop
\* The replies to the gate's info.user_state request a tick is run against:
\* a failure, a healthy account, and the account after a loss.
BotUserStates ==
    { UserState(TRUE, FALSE, FALSE, FALSE, 0, 0, 0),
      UserState(FALSE, TRUE, TRUE, TRUE, 1000, 0, 0),
      UserState(FALSE, TRUE, TRUE, TRUE, 880, 0, 0) }

\* The replies a tick's strategy run is run against: no position or a BTC
\* long in profit, a quoted book, a healthy account.
BotPositionLists ==
    { EmptyMap, [c \in {"BTC"} |-> Position(20000, 100, 10, 100)] }

BotMarketData == { MarketData(TRUE, 99, 101) }

BotSizingStates == { UserState(FALSE, TRUE, TRUE, TRUE, 1000, 0, 0) }

GateBlocksNever(checks) == FALSE

\* _trading_loop, line 256: the gate blocks the tick.
GateBlocks(checks) == ~checks.all_checks_passed

\* _trading_loop, line 255: the tick evaluates the risk gate.
trading_loop_gate(user_states) ==
    /\ tick.pc = "idle"
    /\ \E us \in user_states : check_risk_limits(us)
    /\ tick' = Tick(IF GateBlocks(risk_checks') THEN "breach" ELSE "reconcile",
                    TRUE, risk_checks'.all_checks_passed, FALSE, FALSE, FALSE,
                    Len(orders))
    /\ UNCHANGED <<position_limit, ledger_vars, strategy_vars>>

TickGate == trading_loop_gate(BotUserStates) /\ UNCHANGED <<gateway_vars, loop_vars, thread_vars, signal_vars, history_vars>>

\* _trading_loop, lines 257-259: the gate has blocked; every open order is
\* cancelled and the tick returns.
trading_loop_breach ==
    /\ tick.pc = "breach"
    /\ cancel_all_orders("")
    /\ tick' = [tick EXCEPT !.pc = "idle", !.cancelled_all = TRUE]
    /\ UNCHANGED <<risk_vars, strategy_vars>>

TickBreach == trading_loop_breach /\ UNCHANGED <<gateway_vars, loop_vars, thread_vars, signal_vars, history_vars>>

\* _trading_loop, line 261
trading_loop_reconcile ==
    /\ tick.pc = "reconcile"
    /\ update_order_status
    /\ tick' = [tick EXCEPT !.pc = "strategy", !.reconciled = TRUE]
    /\ UNCHANGED <<risk_vars, strategy_vars>>

TickReconcile == trading_loop_reconcile /\ UNCHANGED <<gateway_vars, loop_vars, thread_vars, signal_vars, history_vars>>

\* _trading_loop, line 263: strategy.run(coins) starts.
trading_loop_run_start(position_lists) ==
    /\ tick.pc = "strategy"
    /\ RunStart(position_lists)
    /\ tick' = [tick EXCEPT !.pc = "running", !.strategy_run = TRUE]
    /\ UNCHANGED risk_vars

TickRunStart ==
    trading_loop_run_start(BotPositionLists) /\ UNCHANGED <<gateway_vars, loop_vars, thread_vars, signal_vars, history_vars>>

\* strategy.run(coins) handles a coin; the tick ends with the run.
trading_loop_run_coin(market_data, user_states) ==
    /\ tick.pc = "running"
    /\ RunCoin(market_data, user_states)
    /\ tick' = [tick EXCEPT !.pc = IF run_idx' = 0 THEN "idle" ELSE "running"]
    /\ UNCHANGED risk_vars

TickRunCoin ==
    /\ trading_loop_run_coin(BotMarketData, BotSizingStates)
    /\ UNCHANGED <<gateway_vars, loop_vars, thread_vars, signal_vars, history_vars>>

\* The control loop's ticks under any venue.
NextBot ==
    \/ TickGate
    \/ TickBreach
    \/ TickReconcile
    \/ TickRunStart
    \/ TickRunCoin
    \/ VenueMoves

SpecBot == Init /\ [][NextBot]_vars

\* ------------------------------------------------------------------ claims: control loop
\* C3: in a tick whose gate reports all_checks_passed = False (unavailable
\* metrics included) the strategy pipeline is not run and no order is
\* submitted, and the tick has invoked cancel_all_orders when it ends.
C3_BreachCancelsAndSkipsStrategy ==
    (tick.gated /\ ~tick.passed)
       => /\ ~tick.strategy_run
          /\ Len(orders) = tick.orders_before
          /\ tick.pc \in {"breach", "idle"}
          /\ (tick.pc = "idle" => tick.cancelled_all)

\* A tick blocked by the gate has ended, with an order of an earlier tick
\* in the ledger.
C3_Witness ==
    /\ tick.gated /\ ~tick.passed
    /\ tick.pc = "idle"
    /\ tick.cancelled_all
    /\ Len(orders) > 0

\* ------------------------------------------------------------------ Rate-Limited Gateway
RECURSIVE Pow(_, _)
Pow(b, k) == IF k = 0 THEN 1 ELSE b * Pow(b, k - 1)

\* deque(maxlen=maxlen).append
DequeAppend(dq, x, maxlen) ==
    IF Len(dq) = maxlen THEN Append(Tail(dq), x) ELSE Append(dq, x)

\* wait_if_needed, line 37: the least time between two requests.
min_wait_no_backoff(l) == l.min_interval

min_wait(l) == l.min_interval + l.current_backoff

\* wait_if_needed, lines 47-53: the clock after the burst check made at
\* current_time, times being the deque after the append.
burst_release_never(l, times, current_time) == current_time

burst_release(l, times, current_time) ==
    IF Len(times) >= l.burst_limit /\ current_time - times[1] < burst_window
    THEN current_time + (burst_window - (current_time - times[1])) + burst_margin
    ELSE current_time

\* RateLimiter.wait_if_needed() entered at clock t with the limiter l: the
\* limiter afterwards, and released, the clock when it returns.
wait_if_needed(l, t) ==
    LET current_time == IF t - l.last_request_time < min_wait(l)
                        THEN l.last_request_time + min_wait(l)
                        ELSE t
        times == DequeAppend(l.request_times, current_time, l.burst_limit)
        released == burst_release(l, times, current_time)
    IN [limiter |-> [l EXCEPT !.request_times = times,
                              !.last_request_time = released,
                              !.released = DequeAppend(l.released, released,
                                                       l.burst_limit + 1)],
        released |-> released]

\* RateLimiter.on_429_error()
on_429_error(l) ==
    LET n == l.consecutive_429s + 1
        backoff == Pow(l.backoff_factor, n) * Second
    IN [l EXCEPT !.consecutive_429s = n,
                 !.current_backoff = IF backoff <= l.max_backoff THEN backoff
                                     ELSE l.max_backoff]

\* RateLimiter.on_success()
on_success_counter_only(l) ==
    IF l.consecutive_429s > 0 THEN [l EXCEPT !.consecutive_429s = 0] ELSE l

on_success(l) ==
    IF l.consecutive_429s > 0
    THEN [l EXCEPT !.consecutive_429s = 0, !.current_backoff = 0]
    ELSE l

\* How a request to the venue ends: it answers, it raises a rate-limit
\* error, it raises another error.
Outcomes == {"ok", "429", "error"}

\* APICallWrapper.call, lines 87-97: what the caller gets when the
\* operation did outcome; the result is returned (line 89) and the error
\* raised again (line 97).
call_result_swallowed(outcome) == IF outcome = "error" THEN "none" ELSE outcome

call_result(outcome) == outcome

\* APICallWrapper.call: the invocations of func in one call (line 87, once).
invocations(outcome) == 1

\* api_wrapper.call(func): the component `by` sends the request `kind`
\* through the gateway.
api_wrapper_call(by, kind) ==
    \E outcome \in Outcomes :
       LET w == wait_if_needed(limiter, time)
           after == IF outcome = "ok" THEN on_success(w.limiter)
                    ELSE IF outcome = "429" THEN on_429_error(w.limiter)
                    ELSE w.limiter
           returned == IF outcome = "429" THEN w.released + after.current_backoff
                       ELSE w.released
       IN /\ returned <= MaxTime
          /\ limiter' = after
          /\ time' = returned
          /\ request' = [Request(by, kind, outcome, TRUE, outcome # "error")
                            EXCEPT !.invoked = invocations(outcome),
                                   !.result = call_result(outcome)]

\* The component `by` calls the SDK method `kind` itself.
direct_call(by, kind) ==
    \E outcome \in Outcomes :
       /\ request' = Request(by, kind, outcome, FALSE, FALSE)
       /\ UNCHANGED <<limiter, time>>

\* OrderManager._place_order: exchange.order
PlaceOrderRequest ==
    /\ direct_call("OrderManager", "order")
    /\ UNCHANGED <<ledger_vars, risk_vars, strategy_vars, bot_vars, loop_vars, thread_vars, signal_vars, history_vars>>

\* OrderManager.cancel_order: exchange.cancel
CancelRequest ==
    /\ direct_call("OrderManager", "cancel")
    /\ UNCHANGED <<ledger_vars, risk_vars, strategy_vars, bot_vars, loop_vars, thread_vars, signal_vars, history_vars>>

\* OrderManager.cancel_all_orders and get_open_orders: info.open_orders
OpenOrdersRequest ==
    /\ direct_call("OrderManager", "open_orders")
    /\ UNCHANGED <<ledger_vars, risk_vars, strategy_vars, bot_vars, loop_vars, thread_vars, signal_vars, history_vars>>

\* OrderManager.update_order_status: info.user_fills
UserFillsRequest ==
    /\ direct_call("OrderManager", "user_fills")
    /\ UNCHANGED <<ledger_vars, risk_vars, strategy_vars, bot_vars, loop_vars, thread_vars, signal_vars, history_vars>>

\* OrderManager.get_position and get_all_positions: info.user_state
PositionsRequest ==
    /\ direct_call("OrderManager", "user_state")
    /\ UNCHANGED <<ledger_vars, risk_vars, strategy_vars, bot_vars, loop_vars, thread_vars, signal_vars, history_vars>>

\* SimpleMAStrategy.calculate_position_size: info.user_state
SizingRequest ==
    /\ direct_call("SimpleMAStrategy", "user_state")
    /\ UNCHANGED <<ledger_vars, risk_vars, strategy_vars, bot_vars, loop_vars, thread_vars, signal_vars, history_vars>>

\* RiskManager.get_current_metrics: info.user_state
MetricsRequest ==
    /\ api_wrapper_call("RiskManager", "user_state")
    /\ UNCHANGED <<ledger_vars, risk_vars, strategy_vars, bot_vars, loop_vars, thread_vars, signal_vars, history_vars>>

\* MarketDataManager: info.l2_snapshot, info.meta, info.candles_snapshot
MarketDataRequest ==
    /\ \E kind \in {"l2_snapshot", "meta", "candles_snapshot"} :
          api_wrapper_call("MarketDataManager", kind)
    /\ UNCHANGED <<ledger_vars, risk_vars, strategy_vars, bot_vars, loop_vars, thread_vars, signal_vars, history_vars>>

\* Time passes between two requests.
TimePasses ==
    /\ \E d \in {Second \div 3, Second} :
          /\ time + d <= MaxTime
          /\ time' = time + d
    /\ UNCHANGED <<limiter, request>>
    /\ UNCHANGED <<ledger_vars, risk_vars, strategy_vars, bot_vars, loop_vars, thread_vars, signal_vars, history_vars>>

\* The requests the components send to the venue, in any order.
NextGateway ==
    \/ PlaceOrderRequest
    \/ CancelRequest
    \/ OpenOrdersRequest
    \/ UserFillsRequest
    \/ PositionsRequest
    \/ SizingRequest
    \/ MetricsRequest
    \/ MarketDataRequest
    \/ TimePasses

SpecGateway == Init /\ [][NextGateway]_vars

\* The RateLimiters wait_if_needed is checked on: the global one (1.5
\* requests per second, burst 3), the constructor's defaults (2 per second,
\* burst 5, backoff up to 60 s), and limiters of 10 requests per second with
\* burst limits 3 and 2 and a backoff of at most 1.5 s.
LimiterConfigs ==
    { RateLimiter(min_interval, burst_limit, backoff_factor, max_backoff),
      RateLimiter(Second \div 2, 5, 2, 60 * Second),
      RateLimiter(Second \div 10, 3, 2, 3 * (Second \div 2)),
      RateLimiter(Second \div 10, 2, 2, 3 * (Second \div 2)) }

InitLimiter ==
    /\ InitLedger /\ InitRisk /\ InitStrategy /\ InitBot /\ InitLoop /\ InitThreads
    /\ InitSignal
    /\ limiter \in LimiterConfigs
    /\ time = StartTime
    /\ request = NoRequest

\* APICallWrapper(limiter).call(func) by any caller.
LimiterCall ==
    /\ api_wrapper_call("caller", "call")
    /\ UNCHANGED <<ledger_vars, risk_vars, strategy_vars, bot_vars, loop_vars, thread_vars, signal_vars, history_vars>>

\* One RateLimiter of any configuration under any sequence of calls.
NextLimiter ==
    \/ LimiterCall
    \/ TimePasses

SpecLimiter == InitLimiter /\ [][NextLimiter]_vars

\* "with self._lock" (lines 32, 59, 69): the lock can be taken when no
\* thread holds it.
lock_free_always(holder) == TRUE

lock_free(holder) == holder = 0

\* wait_if_needed, lines 32-40, by thread th: it takes the lock, reads the
\* clock and _last_request_time and decides how long to sleep.
waiter_enter(th) ==
    /\ waiters[th].pc = "idle"
    /\ lock_free(lock)
    /\ lock' = th
    /\ LET time_since_last == time - limiter.last_request_time
           wake == IF time_since_last < min_wait(limiter)
                   THEN time + (min_wait(limiter) - time_since_last)
                   ELSE time
       IN waiters' = [waiters EXCEPT ![th] = Waiter("pacing", time, wake)]
    /\ UNCHANGED <<limiter, time, request>>

\* wait_if_needed, lines 42-52, by thread th: its sleep ends and it reads
\* the clock again (if it slept), appends current_time to _request_times
\* and decides the sleep of the burst check.
waiter_paced(th) ==
    LET w == waiters[th]
        slept == w.wake > w.current_time
        clock == IF slept /\ time < w.wake THEN w.wake ELSE time
        current_time == IF slept THEN clock ELSE w.current_time
        times == DequeAppend(limiter.request_times, current_time, limiter.burst_limit)
        burst_wait == burst_release(limiter, times, current_time) - current_time
    IN /\ w.pc = "pacing"
       /\ clock <= MaxTime
       /\ time' = clock
       /\ limiter' = [limiter EXCEPT !.request_times = times]
       /\ waiters' = [waiters EXCEPT ![th] = Waiter("bursting", current_time,
                                                      clock + burst_wait)]
       /\ UNCHANGED <<lock, request>>

\* wait_if_needed, lines 53-55, by thread th: the sleep of the burst check
\* ends, _last_request_time is set to the clock and the lock is released.
waiter_release(th) ==
    LET w == waiters[th]
        clock == IF time < w.wake THEN w.wake ELSE time
    IN /\ w.pc = "bursting"
       /\ clock <= MaxTime
       /\ time' = clock
       /\ limiter' = [limiter EXCEPT
                         !.last_request_time = clock,
                         !.released = DequeAppend(limiter.released, clock,
                                                  limiter.burst_limit + 1)]
       /\ lock' = 0
       /\ waiters' = [waiters EXCEPT ![th] = Waiter("called", 0, 0)]
       /\ UNCHANGED request

\* APICallWrapper.call, lines 87-94, by thread th: the operation has
\* returned or raised, and on_success or on_429_error runs under the lock.
waiter_report(th) ==
    /\ waiters[th].pc = "called"
    /\ lock_free(lock)
    /\ \E outcome \in Outcomes :
          limiter' = IF outcome = "ok" THEN on_success(limiter)
                     ELSE IF outcome = "429" THEN on_429_error(limiter)
                     ELSE limiter
    /\ waiters' = [waiters EXCEPT ![th] = Waiter("idle", 0, 0)]
    /\ UNCHANGED <<lock, time, request>>

WaiterEnters ==
    /\ \E th \in Threads : waiter_enter(th)
    /\ UNCHANGED <<ledger_vars, risk_vars, strategy_vars, bot_vars, loop_vars, signal_vars, history_vars>>

WaiterPaced ==
    /\ \E th \in Threads : waiter_paced(th)
    /\ UNCHANGED <<ledger_vars, risk_vars, strategy_vars, bot_vars, loop_vars, signal_vars, history_vars>>

WaiterReleases ==
    /\ \E th \in Threads : waiter_release(th)
    /\ UNCHANGED <<ledger_vars, risk_vars, strategy_vars, bot_vars, loop_vars, signal_vars, history_vars>>

WaiterReports ==
    /\ \E th \in Threads : waiter_report(th)
    /\ UNCHANGED <<ledger_vars, risk_vars, strategy_vars, bot_vars, loop_vars, signal_vars, history_vars>>

\* The clock moves while threads wait.
ClockMoves ==
    /\ time + Second \div 3 <= MaxTime
    /\ time' = time + Second \div 3
    /\ UNCHANGED <<limiter, request>>
    /\ UNCHANGED <<ledger_vars, risk_vars, strategy_vars, bot_vars, loop_vars, thread_vars, signal_vars, history_vars>>

\* The limiters the threads share: the global one, and one of 10 requests
\* per second with burst limit 2.
ThreadLimiterConfigs ==
    { RateLimiter(min_interval, burst_limit, backoff_factor, max_backoff),
      RateLimiter(Second \div 10, 2, 2, 3 * (Second \div 2)) }

InitShared ==
    /\ InitLedger /\ InitRisk /\ InitStrategy /\ InitBot /\ InitLoop /\ InitThreads
    /\ InitSignal
    /\ limiter \in ThreadLimiterConfigs
    /\ time = StartTime
    /\ request = NoRequest

\* Threads calling through one RateLimiter, in any interleaving.
NextThreads ==
    \/ WaiterEnters
    \/ WaiterPaced
    \/ WaiterReleases
    \/ WaiterReports
    \/ ClockMoves

SpecThreads == InitShared /\ [][NextThreads]_vars

\* ------------------------------------------------------------------ claims: Rate-Limited Gateway
\* C5: every request sent to the venue, by any component, is preceded by
\* wait_if_needed of the shared limiter, and its outcome (success or
\* rate-limit error) is reported to the limiter.
C5_EveryRequestThroughGateway ==
    request # NoRequest
       => /\ request.paced
          /\ (request.outcome # "error" => request.reported)

\* C18: two consecutive requests through one RateLimiter are released (the
\* values of _last_request_time) at least min_interval = 1 /
\* requests_per_second apart, and at least min_interval + the current
\* backoff apart while a backoff is active; with 2 requests per second they
\* are at least 0.5 s apart.
C18_Pacing ==
    [][ limiter'.last_request_time # limiter.last_request_time
          => LET apart == limiter'.last_request_time - limiter.last_request_time
             IN /\ apart >= limiter.min_interval
                /\ limiter.current_backoff > 0
                      => apart >= limiter.min_interval + limiter.current_backoff
                /\ 2 * limiter.min_interval = Second => 2 * apart >= Second ]_vars

\* C18 witness: with 2 requests per second, two calls released exactly
\* 0.5 s apart; and a call released under an active backoff.
C18_Witness ==
    /\ 2 * limiter.min_interval = Second
    /\ Len(limiter.released) >= 3
    /\ 2 * (limiter.released[2] - limiter.released[1]) = Second
    /\ limiter.released[3] - limiter.released[2]
          >= limiter.min_interval + 2 * Second

\* C19: under any burst_limit N and requests_per_second, no more than N
\* requests are released within any 1-second window; a caller that would be
\* the N-th request inside the trailing second blocks for the remainder of
\* that window plus 0.1 s before it is released. The requests of the
\* trailing second are those whose request time, as the limiter records it,
\* is less than 1 s before the caller's.
C19_BurstCap ==
    [][ limiter'.last_request_time # limiter.last_request_time
          => LET N == limiter.burst_limit
                 times == limiter'.request_times
                 current_time == times[Len(times)]
                 trailing == {i \in DOMAIN times : current_time - times[i] < burst_window}
                 released == limiter'.released
             IN /\ Len(released) > N
                      => released[Len(released)] - released[Len(released) - N] > burst_window
                /\ IF Cardinality(trailing) >= N
                   THEN LET oldest == times[Min(trailing)]
                        IN limiter'.last_request_time =
                              current_time + (burst_window - (current_time - oldest))
                                           + burst_margin
                   ELSE limiter'.last_request_time = current_time ]_vars

\* C19 witness: a limiter of burst limit 3 has held back the third request
\* of a second until 1.1 s after the first.
C19_Witness ==
    /\ limiter.burst_limit = 3
    /\ Len(limiter.request_times) = 3
    /\ limiter.request_times[3] - limiter.request_times[1] < burst_window
    /\ limiter.last_request_time = limiter.request_times[1] + burst_window + burst_margin

\* C20: a rate-limit error adds one to the consecutive-failure counter and
\* sets backoff = min(backoff_factor ^ counter, max_backoff); a successful
\* call sets counter and backoff to 0; any other error leaves both as they
\* were. So 0 <= backoff <= max_backoff, and backoff = 0 exactly when the
\* counter is 0.
C20_BackoffStateMachine ==
    [][ /\ (request' # request \/ limiter' # limiter) =>
              LET n == limiter.consecutive_429s + 1
                  power == Pow(limiter.backoff_factor, n) * Second
              IN CASE request'.outcome = "429" ->
                        /\ limiter'.consecutive_429s = n
                        /\ limiter'.current_backoff =
                              (IF power <= limiter.max_backoff THEN power
                               ELSE limiter.max_backoff)
                   [] request'.outcome = "ok" ->
                        limiter'.consecutive_429s = 0 /\ limiter'.current_backoff = 0
                   [] OTHER ->
                        /\ limiter'.consecutive_429s = limiter.consecutive_429s
                        /\ limiter'.current_backoff = limiter.current_backoff
        /\ limiter'.current_backoff >= 0
        /\ limiter'.current_backoff <= limiter'.max_backoff
        /\ (limiter'.current_backoff = 0) = (limiter'.consecutive_429s = 0) ]_vars

\* C20 witness: a second rate-limit error in a row has met max_backoff.
C20_Witness ==
    /\ request.outcome = "429"
    /\ limiter.consecutive_429s = 2
    /\ limiter.current_backoff = limiter.max_backoff
    /\ Pow(limiter.backoff_factor, 2) * Second > limiter.max_backoff

\* C22: with two or more threads calling wait_if_needed on one RateLimiter,
\* the sequence "read last request time, decide to sleep, record new
\* request time" of one caller never interleaves with that of another, and
\* the minimum-interval and burst-cap properties hold for the merged
\* sequence of released requests under every interleaving.
C22_CallersSerialised ==
    [][ /\ Cardinality({th \in Threads : waiters'[th].pc \in {"pacing", "bursting"}}) <= 1
        /\ limiter'.released # limiter.released
              => LET N == limiter.burst_limit
                     released == limiter'.released
                     apart == limiter'.last_request_time - limiter.last_request_time
                 IN /\ apart >= limiter.min_interval + limiter.current_backoff
                    /\ Len(released) > N
                          => released[Len(released)] - released[Len(released) - N]
                                > burst_window ]_vars

\* C22 witness: one thread is inside wait_if_needed, holding the lock, while
\* the other has been released before it and the burst check has held a
\* request back.
C22_Witness ==
    /\ lock # 0
    /\ waiters[lock].pc = "bursting"
    /\ waiters[lock].wake > waiters[lock].current_time
    /\ \E th \in Threads : th # lock /\ waiters[th].pc = "called"

\* C21: APICallWrapper.call invokes the wrapped operation exactly once per
\* call; on success it returns the operation's result; on any failure it
\* raises the same error to the caller, after sleeping the new backoff when
\* the error is a rate-limit error, and neither retries nor swallows it.
C21_CallOnceAndReraise ==
    [][ limiter'.last_request_time # limiter.last_request_time
          => /\ request'.invoked = 1
             /\ request'.result = request'.outcome
             /\ time' = limiter'.last_request_time
                         + (IF request'.outcome = "429"
                            THEN limiter'.current_backoff ELSE 0) ]_vars

\* C21 witness: a call whose operation raised a rate-limit error has raised
\* it to the caller after the backoff.
C21_Witness ==
    /\ request.paced
    /\ request.outcome = "429" /\ request.result = "429"
    /\ request.invoked = 1
    /\ limiter.current_backoff > 0
    /\ time = limiter.last_request_time + limiter.current_backoff

\* The control loop's ticks against an account that holds positions in
\* symbols the bot does not trade: one below max_positions, or max_positions.
HeldPositionLists ==
    { [c \in {"SOL", "AVAX"} |-> Position(10000, 100, 0, 100)],
      [c \in {"SOL", "AVAX", "DOGE"} |-> Position(10000, 100, 0, 100)] }

HeldRunStart ==
    trading_loop_run_start(HeldPositionLists) /\ UNCHANGED <<gateway_vars, loop_vars, thread_vars, signal_vars, history_vars>>

\* The symbols without a cached position for which the current tick has
\* submitted an acknowledged order that opens a position.
OpenedInTick ==
    { orders[i].coin : i \in { j \in (tick.orders_before + 1)..Len(orders) :
                                  /\ ~orders[j].reduce_only
                                  /\ orders[j].status = "pending" } }
      \ DOMAIN positions

NextHeld ==
    \/ TickGate
    \/ TickBreach
    \/ TickReconcile
    \/ HeldRunStart
    \/ TickRunCoin
    \/ VenueMoves

SpecHeld == Init /\ [][NextHeld]_vars

\* ------------------------------------------------------------------ control loop: run
\* The replies an iteration of run's loop is run against: the gate's
\* account requests answer as in a tick; the position list is empty or
\* holds a BTC long without margin; the sizing's account request fails.
LoopPositionLists ==
    { EmptyMap, [c \in {"BTC"} |-> Position(20000, 100, 0, 0)] }

LoopSizingStates == { UserState(TRUE, FALSE, FALSE, FALSE, 0, 0, 0) }

\* _reset_connections(): ok tells the new connections could be made. The
\* managers are built anew: a RiskManager without baselines, an
\* OrderManager without active orders, a strategy without positions.
reset_connections(ok) ==
    IF ok
    THEN /\ starting_balance' = None
         /\ daily_starting_balance' = None
         /\ last_reset_date' = today
         /\ active_orders' = EmptyMap
         /\ positions' = EmptyMap
         /\ UNCHANGED <<today, user_state, risk_checks, position_limit>>
         /\ UNCHANGED <<orders, venue_open, venue_fills, next_oid, call>>
         /\ UNCHANGED <<run_idx, run_status, sizing, handling>>
    ELSE UNCHANGED <<ledger_vars, risk_vars, strategy_vars>>

\* run, lines 230-231: the connections are to be reset at clock t.
should_reset_on_errors(l, t) == l.consecutive_errors > reset_errors

should_reset(l, t) ==
    /\ l.consecutive_errors > reset_errors
    /\ t - l.last_connection_reset > reset_interval * Second

\* run, lines 228-234: the head of an iteration.
LoopHead ==
    /\ loop.pc = "head"
    /\ loop.running
    /\ IF should_reset(loop, time)
       THEN \E ok \in BOOLEAN :
               LET retries == IF ok THEN 0 ELSE loop.connection_retry_count + 1 IN
               /\ reset_connections(ok)
               /\ time' = time + reset_sleep * Second
               /\ loop' = [loop EXCEPT
                             !.pc = "gate",
                             !.consecutive_errors = 0,
                             !.last_connection_reset = time,
                             !.connection_retry_count = retries,
                             !.resets = @ + 1,
                             !.running = @ /\ (ok \/ retries <= max_connection_retries)]
       ELSE /\ loop' = [loop EXCEPT !.pc = "gate"]
            /\ UNCHANGED <<ledger_vars, risk_vars, strategy_vars, time>>
    /\ UNCHANGED <<tick, limiter, request, thread_vars, signal_vars, history_vars>>

\* run, line 236: _trading_loop is entered.
LoopGate ==
    /\ loop.pc = "gate"
    /\ trading_loop_gate(BotUserStates)
    /\ loop' = [loop EXCEPT !.pc = "tick"]
    /\ UNCHANGED <<gateway_vars, thread_vars, signal_vars, history_vars>>

LoopBreach ==
    loop.pc = "tick" /\ trading_loop_breach /\ UNCHANGED <<gateway_vars, loop_vars, thread_vars, signal_vars, history_vars>>

LoopReconcile ==
    loop.pc = "tick" /\ trading_loop_reconcile /\ UNCHANGED <<gateway_vars, loop_vars, thread_vars, signal_vars, history_vars>>

LoopRunStart ==
    /\ loop.pc = "tick"
    /\ trading_loop_run_start(LoopPositionLists)
    /\ UNCHANGED <<gateway_vars, loop_vars, thread_vars, signal_vars, history_vars>>

LoopRunCoin ==
    /\ loop.pc = "tick"
    /\ trading_loop_run_coin(BotMarketData, LoopSizingStates)
    /\ UNCHANGED <<gateway_vars, loop_vars, thread_vars, signal_vars, history_vars>>

\* run, lines 237-238 and 249-252: _trading_loop has returned or raised.
LoopEnd ==
    /\ loop.pc = "tick"
    /\ tick.pc = "idle"
    /\ time + loop_sleep * Second <= MaxLoopTime
    /\ time' = time + loop_sleep * Second
    /\ loop' = [loop EXCEPT
                  !.pc = "head",
                  !.consecutive_errors =
                      IF tick.strategy_run /\ run_status = "raised" THEN @ + 1 ELSE 0]
    /\ UNCHANGED <<ledger_vars, risk_vars, strategy_vars, tick, limiter, request,
                   thread_vars, signal_vars, history_vars>>

\* The control loop under any venue.
NextLoop ==
    \/ LoopHead
    \/ LoopGate
    \/ LoopBreach
    \/ LoopReconcile
    \/ LoopRunStart
    \/ LoopRunCoin
    \/ LoopEnd

SpecLoop == Init /\ [][NextLoop]_vars

\* The control loop against a venue that answers the sizing's account
\* request until an order has been placed and fails it from then on: the
\* order is tracked while the errors of the later ticks add up to a reset.
ResetSizingStates ==
    IF orders = <<>> THEN BotSizingStates ELSE LoopSizingStates

ResetRunCoin ==
    /\ loop.pc = "tick"
    /\ trading_loop_run_coin(BotMarketData, ResetSizingStates)
    /\ UNCHANGED <<gateway_vars, loop_vars, thread_vars, signal_vars, history_vars>>

NextReset ==
    \/ LoopHead
    \/ LoopGate
    \/ LoopBreach
    \/ LoopReconcile
    \/ LoopRunStart
    \/ ResetRunCoin
    \/ LoopEnd

SpecReset == Init /\ [][NextReset]_vars

\* The control loop while the venue is unreachable: every request raises.
\* The gate's account request fails, so the tick ends in the breach branch,
\* whose open-order lookup fails as well.
OutageUserStates == { UserState(TRUE, FALSE, FALSE, FALSE, 0, 0, 0) }

OutageGate ==
    /\ loop.pc = "gate"
    /\ trading_loop_gate(OutageUserStates)
    /\ loop' = [loop EXCEPT !.pc = "tick"]
    /\ UNCHANGED <<gateway_vars, thread_vars, signal_vars, history_vars>>

OutageBreach ==
    /\ LoopBreach
    /\ ~call'.open_ok

\* run, lines 237-238 and 249-252, on a clock that stops counting at
\* MaxLoopTime: a time of MaxLoopTime stands for any later time.
OutageEnd ==
    /\ loop.pc = "tick"
    /\ tick.pc = "idle"
    /\ time' = Min({time + loop_sleep * Second, MaxLoopTime})
    /\ loop' = [loop EXCEPT
                  !.pc = "head",
                  !.consecutive_errors =
                      IF tick.strategy_run /\ run_status = "raised" THEN @ + 1 ELSE 0]
    /\ UNCHANGED <<ledger_vars, risk_vars, strategy_vars, tick, limiter, request,
                   thread_vars, signal_vars, history_vars>>

NextOutage ==
    \/ LoopHead
    \/ OutageGate
    \/ OutageBreach
    \/ OutageEnd

\* The loop keeps running: the main thread always takes its next step.
SpecOutage == Init /\ [][NextOutage]_vars /\ WF_vars(NextOutage)

\* ------------------------------------------------------------------ shutdown: _signal_handler
\* Line 271, "self.running = False": the flag after the handler's first line.
running_after_signal_kept(running) == running

running_after_signal(running) == FALSE

\* Line 292, "if self.running": the handler calls sys.exit(0).
forces_exit(running) == running

\* _signal_handler, lines 269-279, interrupting the main thread wherever
\* run's loop stands: the flag is cleared and the helper thread that runs
\* cancel_all_orders is started; the handler enters join.
signal_handler_start ==
    /\ shutdown.handler = "none"
    /\ loop.pc # "exited"
    /\ time <= MaxSignalTime
    /\ loop' = [loop EXCEPT !.running = running_after_signal(@)]
    /\ shutdown' = [shutdown EXCEPT !.handler = "joining", !.helper = "fetching"]
    /\ UNCHANGED <<ledger_vars, risk_vars, strategy_vars, bot_vars, gateway_vars,
                   thread_vars, history_vars>>

\* The helper thread, cancel_all_orders line 146: info.open_orders answers
\* with the venue's list, raises (the except returns), or never returns.
helper_fetch ==
    /\ shutdown.helper = "fetching"
    /\ loop.pc # "exited" /\ shutdown.handler # "exited"
    /\ \E outcome \in {"listed", "raised", "hung"} :
          shutdown' = [shutdown EXCEPT
                         !.helper = CASE outcome = "listed" -> "cancelling"
                                      [] outcome = "raised" -> "done"
                                      [] OTHER -> "hung",
                         !.todo = IF outcome = "listed"
                                  THEN Matching(venue_open, "") ELSE {}]
    /\ UNCHANGED <<ledger_vars, risk_vars, strategy_vars, bot_vars, gateway_vars,
                   loop_vars, thread_vars, history_vars>>

\* The helper thread, cancel_all_orders lines 148-154: cancel_order for the
\* next listed order, or the end of the list.
helper_cancel ==
    /\ shutdown.helper = "cancelling"
    /\ loop.pc # "exited" /\ shutdown.handler # "exited"
    /\ IF shutdown.todo = {}
       THEN /\ shutdown' = [shutdown EXCEPT !.helper = "done"]
            /\ UNCHANGED ledger_vars
       ELSE LET oid == Min(shutdown.todo) IN
            /\ cancel_order(oid, "")
            /\ shutdown' = [shutdown EXCEPT !.todo = @ \ {oid},
                                            !.helper_cancels = @ + 1]
    /\ UNCHANGED <<risk_vars, strategy_vars, bot_vars, gateway_vars, loop_vars,
                   thread_vars, history_vars>>

\* _signal_handler, lines 281-284: join(timeout=5) returns, at once when
\* the helper has finished, after join_timeout otherwise.
signal_handler_join ==
    /\ shutdown.handler = "joining"
    /\ LET finished == shutdown.helper = "done"
           waited == IF finished THEN 0 ELSE join_timeout * Second
       IN /\ time' = time + waited
          /\ shutdown' = [shutdown EXCEPT !.handler = "sleeping",
                                          !.waited = waited,
                                          !.timed_out = ~finished]
    /\ UNCHANGED <<ledger_vars, risk_vars, strategy_vars, bot_vars, limiter, request,
                   loop_vars, thread_vars, history_vars>>

\* _signal_handler, lines 288-294: time.sleep(1), then sys.exit(0) if the
\* flag is still set; otherwise the handler returns into the main thread.
signal_handler_finish ==
    /\ shutdown.handler = "sleeping"
    /\ time' = time + exit_delay * Second
    /\ shutdown' = [shutdown EXCEPT
                      !.handler = IF forces_exit(loop.running) THEN "exited"
                                  ELSE "returned"]
    /\ UNCHANGED <<ledger_vars, risk_vars, strategy_vars, bot_vars, limiter, request,
                   loop_vars, thread_vars, history_vars>>

\* The main thread runs: no handler is on its stack and the process lives.
MainThreadRuns == shutdown.handler \in {"none", "returned"}

\* run, line 226: "while self.running" ends the loop and run returns.
LoopExit ==
    /\ loop.pc = "head"
    /\ ~loop.running
    /\ loop' = [loop EXCEPT !.pc = "exited"]
    /\ UNCHANGED <<ledger_vars, risk_vars, strategy_vars, bot_vars, gateway_vars,
                   thread_vars, signal_vars, history_vars>>

MainHead == MainThreadRuns /\ LoopHead

MainGate == MainThreadRuns /\ LoopGate

MainBreach == MainThreadRuns /\ LoopBreach

MainReconcile == MainThreadRuns /\ LoopReconcile

\* The ticks around a stop signal run against a venue that quotes a book
\* and reports a healthy account and no position, so that orders are placed.
ShutdownPositionLists == { EmptyMap }

MainRunStart ==
    /\ MainThreadRuns
    /\ loop.pc = "tick"
    /\ trading_loop_run_start(ShutdownPositionLists)
    /\ UNCHANGED <<gateway_vars, loop_vars, thread_vars, signal_vars, history_vars>>

MainRunCoin ==
    /\ MainThreadRuns
    /\ loop.pc = "tick"
    /\ trading_loop_run_coin(BotMarketData, BotSizingStates)
    /\ UNCHANGED <<gateway_vars, loop_vars, thread_vars, signal_vars, history_vars>>

MainEnd == MainThreadRuns /\ time <= MaxSignalTime /\ LoopEnd

MainExit == MainThreadRuns /\ LoopExit

\* The control loop, a stop signal and the helper thread it starts.
NextShutdown ==
    \/ MainHead
    \/ MainGate
    \/ MainBreach
    \/ MainReconcile
    \/ MainRunStart
    \/ MainRunCoin
    \/ MainEnd
    \/ MainExit
    \/ signal_handler_start
    \/ helper_fetch
    \/ helper_cancel
    \/ signal_handler_join
    \/ signal_handler_finish

SpecShutdown == Init /\ [][NextShutdown]_vars

\* ------------------------------------------------------------------ claims: control loop: run
\* C12: once seeded, the starting balance never changes again, and the
\* daily starting balance changes only when it is seeded or at a rollover
\* of the local date, over every sequence of ticks, failed fetches, loop
\* errors and connection resets.
C12_BaselineStability ==
    [][ /\ ~starting_balance.is_none => starting_balance' = starting_balance
        /\ daily_starting_balance' # daily_starting_balance
              => \/ starting_balance.is_none /\ ~starting_balance'.is_none
                 \/ today > last_reset_date ]_vars

\* C23: a reset is performed at the start of a tick exactly when the
\* consecutive-error counter is greater than 10 and more than 300 s have
\* passed since the last reset; right after it the counter is 0 and the
\* last-reset time is the current time of that tick. So no reset happens
\* until the counter again exceeds 10 and another 300 s have passed.
C23_ConnectionReset ==
    [][ IF loop.pc = "head" /\ loop'.pc # "head"
        THEN IF /\ loop.consecutive_errors > 10
                /\ time - loop.last_connection_reset > 300 * Second
             THEN /\ loop'.resets = loop.resets + 1
                  /\ loop'.consecutive_errors = 0
                  /\ loop'.last_connection_reset = time
             ELSE /\ loop'.resets = loop.resets
                  /\ loop'.consecutive_errors = loop.consecutive_errors
                  /\ loop'.last_connection_reset = loop.last_connection_reset
        ELSE /\ loop'.resets = loop.resets
             /\ loop'.last_connection_reset = loop.last_connection_reset ]_vars

\* C23 witness: one reset has been performed, more than 300 s after the
\* start, and the ticks after it have failed again without a second reset.
C23_Witness ==
    /\ loop.resets = 1
    /\ loop.last_connection_reset - StartTime > 300 * Second
    /\ loop.consecutive_errors >= 1

\* ------------------------------------------------------------------ claims: execution pipeline: run
\* C24: an exception raised while one symbol is handled is caught at that
\* symbol: the loop of run goes on to the next symbol of the list (or ends
\* after the last one) and the run does not end raised.
C24_PerSymbolIsolation ==
    [][ (run_idx \in 1..Len(coins) /\ run_idx' # run_idx)
          => /\ run_status' = "ok"
             /\ run_idx' = IF run_idx = Len(coins) THEN 0 ELSE run_idx + 1 ]_vars

\* C25: for the symbol the loop handles, if the cached position's unrealized
\* PnL over its margin used, in percent, is at or above take_profit_percent
\* or at or below -stop_loss_percent, the pipeline submits one reduce-only
\* market order of size |position size| on the side opposite to the position
\* and does not call generate_signals; otherwise it submits no closing order
\* and calls generate_signals.
C25_TakeProfitStopLoss ==
    [][ (run_idx \in 1..Len(coins) /\ run_idx' # run_idx)
          => LET coin == coins[run_idx]
                 held == coin \in DOMAIN positions
                 ratio_defined == held /\ positions[coin].margin_used > 0
                 crossed ==
                     /\ ratio_defined
                     /\ \/ positions[coin].unrealized_pnl * 100
                             >= take_profit_percent * positions[coin].margin_used
                        \/ positions[coin].unrealized_pnl * 100
                             <= -stop_loss_percent * positions[coin].margin_used
             IN IF crossed
                THEN /\ Len(orders') = Len(orders) + 1
                     /\ LET order == orders'[Len(orders')]
                        IN /\ order.coin = coin
                           /\ order.order_type = "market"
                           /\ order.reduce_only
                           /\ order.size = Abs(positions[coin].size)
                           /\ order.side = IF positions[coin].size > 0 THEN "sell" ELSE "buy"
                     /\ ~handling'.generated
                ELSE (~held \/ ratio_defined)
                        => /\ handling'.generated
                           /\ Len(orders') > Len(orders) => handling'.signal.side # "" ]_vars

\* The position cache holds max_positions or more positions and none in coin.
AtMaxPositions(cache, coin) ==
    Cardinality(DOMAIN cache) >= max_positions /\ coin \notin DOMAIN cache

\* C26: when the position cache holds max_positions or more positions,
\* sizing returns 0 for a symbol without a position; and an order is
\* submitted for a signal only if the signal is not null, has a side, the
\* computed size is above 0 and the cache is not full for a new symbol.
C26_NoOrderWithoutSize ==
    [][ /\ (handling'.signal.side # "" /\ AtMaxPositions(positions', handling'.coin))
              => sizing'.computed = 0 /\ ~sizing'.submitted
        /\ (orders' # orders /\ handling'.verdict # "close")
              => /\ handling'.signal # NoSignal
                 /\ handling'.signal.side # ""
                 /\ sizing'.computed > 0
                 /\ ~AtMaxPositions(positions', handling'.coin) ]_vars

\* C26 witness: a buy signal fired for a symbol without a position while
\* the cache held max_positions positions; the sizing returned 0 and no
\* order was submitted.
C26_Witness ==
    /\ handling.signal.side = "buy"
    /\ AtMaxPositions(positions, handling.coin)
    /\ handling.generated
    /\ sizing.coin = handling.coin /\ sizing.computed = 0 /\ ~sizing.submitted
    /\ orders = <<>>

\* ------------------------------------------------------------------ claims: failure boundaries
\* C27: every public operation of the Risk Monitor absorbs every failure at
\* its own boundary: whatever the venue answers and whatever the numeric
\* arguments are, calculate_position_size_limit and
\* should_allow_new_position return a value and never raise.
C27_FailuresAbsorbed == ~position_limit.raised

\* ------------------------------------------------------------------ claims: shutdown
\* C28: when the signal handler runs it sets the running flag to False and
\* starts the helper thread that attempts cancel_all_orders; from then on
\* the flag never becomes True again and the control loop starts no
\* further tick; the handler waits for the helper at most 5 seconds.
C28_StopSignal ==
    [][ /\ (shutdown.handler = "none" /\ shutdown'.handler # "none")
              => ~loop'.running /\ shutdown'.helper = "fetching"
        /\ shutdown.handler # "none"
              => /\ ~loop'.running
                 /\ ~(loop.pc = "head" /\ loop'.pc = "gate")
        /\ (shutdown.handler = "joining" /\ shutdown'.handler # "joining")
              => /\ time' - time <= 5 * Second
                 /\ shutdown'.waited = time' - time ]_vars

\* C28 witness: the signal came while orders were open; the helper
\* cancelled one within the join, the handler returned and the control
\* loop has exited.
C28_Witness ==
    /\ shutdown.handler = "returned"
    /\ shutdown.helper = "done" /\ shutdown.helper_cancels >= 1
    /\ ~shutdown.timed_out
    /\ ~loop.running
    /\ loop.pc = "exited"

\* C29: if the helper has not finished when the join times out, the signal
\* handler forces the termination of the process: it never returns into
\* the interrupted main thread.
C29_ForcedTermination ==
    (shutdown.timed_out /\ shutdown.handler \notin {"joining", "sleeping"})
        => shutdown.handler = "exited"

\* C30: the active-order set is mutated only by the control loop's own
\* tick: no step of the shutdown helper thread inserts into or removes from
\* active_orders.
C30_SingleWriter ==
    [][ active_orders' # active_orders
          => shutdown'.helper_cancels = shutdown.helper_cancels ]_vars

\* ------------------------------------------------------------------ claims: tick ordering
\* C31: every tick evaluates the risk gate first and reconciles the Order
\* Ledger before any strategy code runs; every tick that has ended has
\* reconciled, a breach of the gate skipping only the strategy execution.
C31_TickOrdering ==
    /\ tick.reconciled => tick.gated
    /\ tick.strategy_run => tick.gated /\ tick.reconciled
    /\ (tick.gated /\ tick.pc = "idle") => tick.reconciled

\* ------------------------------------------------------------------ claims: Risk Monitor checks
\* C32: when metrics are available, leverage_ok holds iff notional /
\* account value <= max_leverage (leverage being 0 when the account value
\* is <= 0), margin_ratio_ok iff margin used / account value < 0.8
\* strictly, all_checks_passed iff the four checks hold, and the result has
\* a reason exactly when all_checks_passed is False.
C32_LeverageAndMarginChecks ==
    (user_state.by = "check_risk_limits" /\ Available(user_state.reply))
       => LET av == user_state.reply.accountValue
              mu == user_state.reply.totalMarginUsed
              ntl == user_state.reply.totalNtlPos
          IN /\ risk_checks.has_checks
             /\ risk_checks.leverage_ok = (IF av > 0 THEN ntl <= max_leverage * av ELSE TRUE)
             /\ av > 0 => risk_checks.margin_ratio_ok = (10 * mu < 8 * av)
             /\ av < 0 => risk_checks.margin_ratio_ok = (10 * mu > 8 * av)
             /\ risk_checks.all_checks_passed =
                   (/\ risk_checks.leverage_ok /\ risk_checks.margin_ratio_ok
                    /\ risk_checks.drawdown_ok /\ risk_checks.daily_loss_ok)
             /\ risk_checks.has_reason = ~risk_checks.all_checks_passed
             /\ (risk_checks.reason # <<>>) = ~risk_checks.all_checks_passed

\* C32 witness: leverage exactly at max_leverage passes, margin ratio
\* exactly at 0.8 fails, and the result carries a reason.
C32_Witness ==
    /\ user_state.by = "check_risk_limits"
    /\ user_state.reply.accountValue = 1000
    /\ user_state.reply.totalMarginUsed = 800
    /\ user_state.reply.totalNtlPos = 3000
    /\ risk_checks.leverage_ok /\ ~risk_checks.margin_ratio_ok
    /\ ~risk_checks.all_checks_passed /\ risk_checks.has_reason

\* C33: a successful metrics fetch on a local date later than
\* last_reset_date sets daily_starting_balance to the fetched account value
\* and last_reset_date to the current date; a successful fetch on the same
\* date leaves the daily baseline unchanged; the very first successful fetch
\* seeds both baselines with its account value, and no later fetch changes
\* starting_balance.
C33_DayRollover ==
    [][ (today' = today /\ Available(user_state'.reply))
          => LET fetched == Some(user_state'.reply.accountValue)
             IN /\ starting_balance' =
                      IF starting_balance.is_none THEN fetched ELSE starting_balance
                /\ IF today > last_reset_date
                   THEN /\ daily_starting_balance' = fetched
                        /\ last_reset_date' = today
                   ELSE /\ last_reset_date' = last_reset_date
                        /\ daily_starting_balance' =
                              IF starting_balance.is_none THEN fetched
                              ELSE daily_starting_balance ]_vars

\* C33 witness: after a rollover the daily baseline is the balance fetched
\* on the new date and differs from the starting balance, which was kept.
C33_Witness ==
    /\ today > 0 /\ last_reset_date = today
    /\ ~starting_balance.is_none /\ starting_balance.value = 1000
    /\ ~daily_starting_balance.is_none /\ daily_starting_balance.value = 880
    /\ Available(user_state.reply) /\ user_state.reply.accountValue = 880

\* ------------------------------------------------------------------ claims: metrics history
\* C34: the metrics history never holds more than 1000 snapshots; an append
\* that takes it past 1000 cuts it to the 500 most recent ones, the oldest
\* dropped first and the order kept; the snapshot just fetched is always
\* its last element.
C34_HistoryBounded ==
    [][ /\ Len(risk_metrics_history') <= 1000
        /\ risk_metrics_history' # risk_metrics_history
              => LET old == risk_metrics_history
                     new == risk_metrics_history'
                 IN /\ new[Len(new)].timestamp = time
                    /\ new[Len(new)].total_balance = user_state'.reply.accountValue
                    /\ IF Len(old) < 1000
                       THEN Len(new) = Len(old) + 1 /\ SubSeq(new, 1, Len(old)) = old
                       ELSE /\ Len(new) = 500
                            /\ SubSeq(new, 1, 499) = SubSeq(old, 502, 1000) ]_vars

\* C34 witness: the history has been cut once and holds the 500 most
\* recent snapshots, the last of them the 1001st fetch.
C34_Witness ==
    /\ Len(risk_metrics_history) = 500
    /\ risk_metrics_history[500].timestamp = StartTime + 1000
    /\ risk_metrics_history[1].timestamp = StartTime + 501

\* C35: a failed metrics fetch (venue error, empty response, missing
\* marginSummary or unparsable values) changes nothing: the starting
\* balance, the daily starting balance, last_reset_date and the metrics
\* history are as before the call.
C35_FailedFetchFrame ==
    [][ LET reply == user_state'.reply
        IN (/\ today' = today
            /\ reply.exc \/ ~reply.truthy \/ ~reply.has_margin \/ ~reply.parse_ok)
              => /\ starting_balance' = starting_balance
                 /\ daily_starting_balance' = daily_starting_balance
                 /\ last_reset_date' = last_reset_date
                 /\ risk_metrics_history' = risk_metrics_history ]_vars

\* C35 witness: a fetch whose values did not parse, made on a later date
\* than last_reset_date with the baselines seeded and snapshots in the
\* history, has left the date of the last reset behind.
C35_Witness ==
    /\ user_state.by = "get_current_metrics"
    /\ user_state.reply.has_margin /\ ~user_state.reply.parse_ok
    /\ today > last_reset_date
    /\ ~starting_balance.is_none /\ ~daily_starting_balance.is_none
    /\ Len(risk_metrics_history) >= 2

\* C36: update_order_status never gives a terminal status to, or stops
\* tracking, an order that is still open at the venue; when the open-order
\* lookup fails, active_orders and the status of every tracked order are
\* left unchanged.
C36_ReconcileKeepsOpenOrders ==
    [][ call'.op = "reconcile" =>
          /\ \A oid \in DOMAIN active_orders \cap DOMAIN venue_open :
                /\ oid \in DOMAIN active_orders'
                /\ orders'[active_orders[oid]].status = orders[active_orders[oid]].status
          /\ ~call'.open_ok =>
                /\ active_orders' = active_orders
                /\ \A oid \in DOMAIN active_orders :
                      orders'[active_orders[oid]].status = orders[active_orders[oid]].status ]_vars

C38_NoOrderAfterShutdown ==
    [][ shutdown.handler # "none" => Len(orders') = Len(orders) ]_vars

\* C39: when every venue call fails from some tick on and the loop keeps
\* running, the consecutive-error counter eventually exceeds 10 and, more
\* than 300 s after the last reset, the loop rebuilds its API connections.
C39_RecoveryLiveness ==
    /\ <>(loop.consecutive_errors > reset_errors)
    /\ <>(loop.resets > 0)

\* C40: at every point of every tick, the number of symbols in which the
\* strategy holds a position plus the number of other symbols for which it
\* has submitted a position-opening order in the current tick is at most
\* max_positions.
C40_ConcurrentPositionBound ==
    Cardinality(DOMAIN positions) + Cardinality(OpenedInTick) <= max_positions

====
